---------------------------- MODULE Spec2Model ----------------------------
(***************************************************************************)
(* A model of gokart's two idioms with behaviour of their own:             *)
(*   - the transaction helpers postgres.Transaction (src/cache.go:458-483) *)
(*     and sqlite.Transaction (src/state_test.go:372-397);                 *)
(*   - the cache get-or-compute Cache.Remember (src/cache.go:239-272).     *)
(* The wrapped libraries (pgx, database/sql, go-redis) are the             *)
(* environment: their calls succeed or fail as the scenario or the step    *)
(* chooses, and their effect on the stored data is the documented one.     *)
(***************************************************************************)
EXTENDS Integers, Sequences, FiniteSets, TLC

VARIABLES
    \* ---- transaction helpers (one run of each helper per round) ----
    scn,        \* the round's outcomes: of Begin, the callback, Commit, Rollback
    round,      \* number of the current round
    pc,         \* per store: where the helper is
    db,         \* per store: the rows that are persisted
    db0,        \* per store: the rows that were persisted when the round began
    txw,        \* per store: rows written inside the open transaction
    txState,    \* per store: "none", "open", "committed", "rolledback", "broken"
    calls,      \* per store: the begin/fn/commit/rollback steps made, in order
    fnErr,      \* per store: the local err of `if err := fn(tx); err != nil`
    panicking,  \* per store: the value of a panic in flight, or NoPanic
    ret,        \* per store: the helper's outcome
    \* ---- the cache ----
    prefix,     \* Cache.prefix
    store,      \* the Redis keyspace: store key -> entry
    remember,   \* per caller: its call of Cache.Remember (arguments, locals,
                \* position, returned values, and what the call has done)
    ncalls,     \* per caller: calls of Remember begun so far
    prevCall,   \* per key: the last call of Remember on it that has returned
    touched,    \* per key: deleted, expired or written since prevCall returned
    deletedSince,
                \* per key: "no" when no Delete or expiry of the key has come
                \* since a call of Remember on it last began, else "clean" or
                \* "raced": whether a call that had read the key was still to
                \* write it when the key was deleted
    \* ---- the other operations of the cache ----
    rj,         \* the call of Cache.RememberJSON (arguments, locals, position,
                \* returned error, and what the call has done)
    lastOp,     \* the last call of a key-taking method: its name, its keys,
                \* the keys its Redis command was given, and what it returned
    won,        \* per store key: calls of SetNX that returned true since the
                \* key was last deleted or expired
    nops,       \* calls of the key-taking methods made so far
    \* ---- the state file ----
    fs,         \* the files under the config directory: path -> file
    saved,      \* per path: the value of the last SaveState that returned nil,
                \* the number of those, and whether a SaveState on the path
                \* has failed since
    io,         \* the last call of SaveState or LoadState and what it returned
    nio,        \* calls of SaveState and LoadState made so far
    \* ---- the file logger ----
    logFiles,   \* the log files: path -> file, its content a sequence of entries
    loggers,    \* per logger: "none", "open" or "closed", and the file it writes
    logged,     \* per path: the entries the loggers have written, in order
    nlog,       \* calls of NewFileLogger, of a logger and of a cleanup so far
    \* ---- the editor input ----
    ed,         \* the call of CaptureInputWithEditor: its arguments, where it
                \* is, what the editor did, and what it returned
    tmp,        \* the temp file of the call
    \* ---- the spinner ----
    sp,         \* the fields of the Spinner: running, done, ctx, message, and
                \* the number of goroutines started
    chans,      \* the done channels that are closed, the contexts that their
                \* cancel function has cancelled, whether the context of the
                \* user is cancelled, and the channels closed a second time
    gor,        \* per animation goroutine: where it is, its frame counter, and
                \* the context its StartWithContext was given
    line,       \* the last output on the writer's line
    caller,     \* the goroutine that calls Start, Update and Stop: where it
                \* is, whether Stop ever stopped the spinner, whether Stop has
                \* returned with no Start since, and the last call made
    \* ---- the scaffolding ----
    ap,         \* the call of Apply: where it is, the embedded tree and the
                \* data it was given, the entries still to be visited, and
                \* the error it returned
    tdir,       \* what is under targetDir: the directories and the files
    \* ---- the migrations ----
    goose,      \* the package-level settings of goose: table name, dialect
                \* and base file system
    mg,         \* the last call of a migration operation: its config, what
                \* its call of goose worked with, and the error it returned
    \* ---- the Open functions ----
    handles,    \* every client, pool or db made so far: whether it is open,
                \* and whether the call that made it returned it
    opn         \* the last call of an Open function: which, the step that
                \* failed, the handle it made, and what it returned

txVars == <<scn, round, pc, db, db0, txw, txState, calls, fnErr, panicking, ret>>

cacheVars == <<prefix, store, remember, ncalls, prevCall, touched, deletedSince>>

opsVars == <<rj, lastOp, won, nops>>

stateVars == <<fs, saved, io, nio>>

logVars == <<logFiles, loggers, logged, nlog>>

edVars == <<ed, tmp>>

spVars == <<sp, chans, gor, line, caller>>

applyVars == <<ap, tdir>>

migVars == <<goose, mg>>

openVars == <<handles, opn>>

\* what the actions of one part leave alone
notTx == <<cacheVars, opsVars, stateVars, logVars, edVars, spVars, applyVars, migVars, openVars>>
notCache == <<txVars, opsVars, stateVars, logVars, edVars, spVars, applyVars, migVars, openVars>>
notOps == <<txVars, remember, ncalls, prevCall, touched, deletedSince, stateVars, logVars, edVars, spVars, applyVars, migVars, openVars>>
notState == <<txVars, cacheVars, opsVars, logVars, edVars, spVars, applyVars, migVars, openVars>>
notLog == <<txVars, cacheVars, opsVars, stateVars, edVars, spVars, applyVars, migVars, openVars>>
notEd == <<txVars, cacheVars, opsVars, stateVars, logVars, spVars, applyVars, migVars, openVars>>

notSpinner == <<txVars, cacheVars, opsVars, stateVars, logVars, edVars, applyVars, migVars, openVars>>

notApply == <<txVars, cacheVars, opsVars, stateVars, logVars, edVars, spVars, migVars, openVars>>

notMig == <<txVars, cacheVars, opsVars, stateVars, logVars, edVars, spVars, applyVars, openVars>>

notOpen == <<txVars, cacheVars, opsVars, stateVars, logVars, edVars, spVars, applyVars, migVars>>

vars == <<txVars, cacheVars, opsVars, stateVars, logVars, edVars, spVars, applyVars, migVars, openVars>>

(***************************************************************************)
(* Bounds                                                                  *)
(***************************************************************************)
MaxRows == 2
MaxTxRounds == 2
NumCallers == 2
MaxCalls == 2
MaxOps == 2
MaxIO == 3
NumLoggers == 2
MaxLogCalls == 5
MaxLen == 3
MaxStarts == 2
MaxOpens == 3

Rows == 1..MaxRows
Stores == {"postgres", "sqlite"}

(***************************************************************************)
(* Go errors.  An error is its text (the pieces fmt.Errorf puts together)  *)
(* and what Unwrap returns: <<>> or <<the wrapped error>>.                 *)
(***************************************************************************)
NoErr == [msg |-> <<>>, wraps |-> <<>>]

NewError(text) == [msg |-> <<text>>, wraps |-> <<>>]

\* fmt.Errorf(head + "%w", err)
ErrorfW(head, err) == [msg |-> <<head>> \o err.msg, wraps |-> <<err>>]

\* fmt.Errorf(head + "%v" + middle + "%w" + suffix, v, w)
ErrorfVW(head, v, middle, w, suffix) ==
    [msg |-> <<head>> \o v.msg \o <<middle>> \o w.msg \o <<suffix>>,
     wraps |-> <<w>>]

\* errors.Is(err, target): target is err or is in err's Unwrap chain
RECURSIVE ErrorsIs(_, _)
ErrorsIs(err, target) ==
    \/ err = target
    \/ /\ err.wraps # <<>>
       /\ ErrorsIs(err.wraps[1], target)

\* strings.Contains on texts kept as sequences of pieces
Contains(s, sub) ==
    \E i \in 0..(Len(s) - Len(sub)) :
        \A j \in 1..Len(sub) : s[i + j] = sub[j]

ErrBegin == NewError("begin: connection refused")
ErrCommit == NewError("commit: serialization failure")
ErrRollback == NewError("rollback: conn closed")
ErrRow == NewError("insert failed")
ErrApp == ErrorfW("create user: ", ErrRow)

CallbackErrors == {ErrRow, ErrApp}

NoPanic == "no panic"
PanicValues == {"database error!", "index out of range"}

Outcome(kind, err, value) == [kind |-> kind, err |-> err, value |-> value]

NoOutcome == Outcome("none", NoErr, NoPanic)

\* what the callback fn(tx) can do once it has made its writes
FnOutcomes ==
    {Outcome("return", NoErr, NoPanic)}
        \cup {Outcome("return", e, NoPanic) : e \in CallbackErrors}
        \cup {Outcome("panic", NoErr, p) : p \in PanicValues}

Scenarios ==
    [begin : {NoErr, ErrBegin},
     writes : SUBSET Rows,
     fn : FnOutcomes,
     commit : {NoErr, ErrCommit},
     rollback : {NoErr, ErrRollback}]

(***************************************************************************)
(* The driver side of a transaction: what Begin, the callback's writes,    *)
(* Commit and Rollback do to the data.                                     *)
(***************************************************************************)
DriverBegin(s, err) ==
    /\ txState' = [txState EXCEPT ![s] = IF err = NoErr THEN "open" ELSE "none"]
    /\ txw' = [txw EXCEPT ![s] = {}]

DriverCommit(s, err) ==
    /\ txState' = [txState EXCEPT ![s] = IF err = NoErr THEN "committed" ELSE "broken"]
    /\ db' = [db EXCEPT ![s] = IF err = NoErr THEN db[s] \cup txw[s] ELSE db[s]]

DriverRollback(s, err) ==
    /\ txState' = [txState EXCEPT ![s] = IF err = NoErr THEN "rolledback" ELSE "broken"]
    /\ db' = db

Logged(s, step) == calls' = [calls EXCEPT ![s] = Append(calls[s], step)]

(***************************************************************************)
(* postgres.Transaction, src/cache.go:458-483                              *)
(***************************************************************************)
\* variant: the error of Begin is not looked at
PgBeginResult_Ignore(err) == NoOutcome

\* 459-462: tx, err := pool.Begin(ctx); if err != nil { return wrapped }
PgBeginResult(err) ==
    IF err # NoErr
    THEN Outcome("return", ErrorfW("begin transaction: ", err), NoPanic)
    ELSE NoOutcome

\* variant: fn's error is not looked at
PgAfterFn_CommitOnError(out) ==
    IF out.kind = "panic" THEN "deferred" ELSE "commit"

\* variant: the transaction is ended by Rollback on every return of fn
PgAfterFn_NeverCommit(out) ==
    IF out.kind = "panic" THEN "deferred" ELSE "rollback"

\* 471 and the deferred recover of 464-469: where fn's outcome leads

PgAfterFn(out) ==
    IF out.kind = "panic" THEN "deferred"
    ELSE IF out.err # NoErr THEN "rollback"
    ELSE "commit"

\* variant: the error of Rollback is dropped
PgRollbackResult_Swallow(rbErr, err) == err

\* 472-475

PgRollbackResult(rbErr, err) ==
    IF rbErr # NoErr
    THEN ErrorfVW("rollback failed: ", rbErr, " (original error: ", err, ")")
    ELSE err

\* 478-482
PgCommitResult(err) ==
    IF err # NoErr THEN ErrorfW("commit transaction: ", err) ELSE NoErr

PgBegin ==
    LET s == "postgres" IN
    /\ pc[s] = "start"
    /\ Logged(s, "begin")
    /\ DriverBegin(s, scn.begin)
    /\ ret' = [ret EXCEPT ![s] = PgBeginResult(scn.begin)]
    /\ pc' = [pc EXCEPT ![s] = IF PgBeginResult(scn.begin) = NoOutcome
                                THEN "fn" ELSE "done"]
    /\ UNCHANGED notTx
    /\ UNCHANGED <<scn, round, db, db0, fnErr, panicking>>

PgFn ==
    LET s == "postgres" IN
    /\ pc[s] = "fn"
    /\ Logged(s, "fn")
    /\ txw' = [txw EXCEPT ![s] = scn.writes]
    /\ fnErr' = [fnErr EXCEPT ![s] = scn.fn.err]
    /\ panicking' = [panicking EXCEPT ![s] = scn.fn.value]
    /\ pc' = [pc EXCEPT ![s] = PgAfterFn(scn.fn)]
    /\ UNCHANGED notTx
    /\ UNCHANGED <<scn, round, db, db0, txState, ret>>

PgRollback ==
    LET s == "postgres" IN
    /\ pc[s] = "rollback"
    /\ Logged(s, "rollback")
    /\ DriverRollback(s, scn.rollback)
    /\ ret' = [ret EXCEPT ![s] =
                  Outcome("return", PgRollbackResult(scn.rollback, fnErr[s]), NoPanic)]
    /\ pc' = [pc EXCEPT ![s] = "done"]
    /\ UNCHANGED notTx
    /\ UNCHANGED <<scn, round, db0, txw, fnErr, panicking>>

\* variant: a Commit that fails is followed by Rollback
PgCommit_ThenRollback ==
    LET s == "postgres" IN
    /\ pc[s] = "commit"
    /\ calls' = [calls EXCEPT ![s] = IF scn.commit # NoErr
                                      THEN calls[s] \o <<"commit", "rollback">>
                                      ELSE Append(calls[s], "commit")]
    /\ DriverCommit(s, scn.commit)
    /\ ret' = [ret EXCEPT ![s] = Outcome("return", PgCommitResult(scn.commit), NoPanic)]
    /\ pc' = [pc EXCEPT ![s] = "done"]
    /\ UNCHANGED notTx
    /\ UNCHANGED <<scn, round, db0, txw, fnErr, panicking>>

\* 478-482: tx.Commit, and the return
PgCommit ==
    LET s == "postgres" IN
    /\ pc[s] = "commit"
    /\ Logged(s, "commit")
    /\ DriverCommit(s, scn.commit)
    /\ ret' = [ret EXCEPT ![s] = Outcome("return", PgCommitResult(scn.commit), NoPanic)]
    /\ pc' = [pc EXCEPT ![s] = "done"]
    /\ UNCHANGED notTx
    /\ UNCHANGED <<scn, round, db0, txw, fnErr, panicking>>

\* variant: the deferred function recovers and does not panic again
PgDeferred_Swallow ==
    LET s == "postgres" IN
    /\ pc[s] = "deferred"
    /\ Logged(s, "rollback")
    /\ DriverRollback(s, scn.rollback)
    /\ ret' = [ret EXCEPT ![s] = Outcome("return", NoErr, NoPanic)]
    /\ panicking' = [panicking EXCEPT ![s] = NoPanic]
    /\ pc' = [pc EXCEPT ![s] = "done"]
    /\ UNCHANGED notTx
    /\ UNCHANGED <<scn, round, db0, txw, fnErr>>

\* 464-469: the deferred function with a panic in flight
PgDeferred ==
    LET s == "postgres" IN
    /\ pc[s] = "deferred"
    /\ Logged(s, "rollback")
    /\ DriverRollback(s, scn.rollback)
    /\ ret' = [ret EXCEPT ![s] = Outcome("panic", NoErr, panicking[s])]
    /\ pc' = [pc EXCEPT ![s] = "done"]
    /\ UNCHANGED notTx
    /\ UNCHANGED <<scn, round, db0, txw, fnErr, panicking>>

(***************************************************************************)
(* sqlite.Transaction, src/state_test.go:372-397                           *)
(***************************************************************************)
\* 373-376: tx, err := db.BeginTx(ctx, nil); if err != nil { return wrapped }
SqBeginResult(err) ==
    IF err # NoErr
    THEN Outcome("return", ErrorfW("begin transaction: ", err), NoPanic)
    ELSE NoOutcome

\* 385 and the deferred recover of 378-383
SqAfterFn(out) ==
    IF out.kind = "panic" THEN "deferred"
    ELSE IF out.err # NoErr THEN "rollback"
    ELSE "commit"

\* 386-389
SqRollbackResult(rbErr, err) ==
    IF rbErr # NoErr
    THEN ErrorfVW("rollback failed: ", rbErr, " (original error: ", err, ")")
    ELSE err

\* 392-396
SqCommitResult(err) ==
    IF err # NoErr THEN ErrorfW("commit transaction: ", err) ELSE NoErr

SqBegin ==
    LET s == "sqlite" IN
    /\ pc[s] = "start"
    /\ Logged(s, "begin")
    /\ DriverBegin(s, scn.begin)
    /\ ret' = [ret EXCEPT ![s] = SqBeginResult(scn.begin)]
    /\ pc' = [pc EXCEPT ![s] = IF SqBeginResult(scn.begin) = NoOutcome
                                THEN "fn" ELSE "done"]
    /\ UNCHANGED notTx
    /\ UNCHANGED <<scn, round, db, db0, fnErr, panicking>>

SqFn ==
    LET s == "sqlite" IN
    /\ pc[s] = "fn"
    /\ Logged(s, "fn")
    /\ txw' = [txw EXCEPT ![s] = scn.writes]
    /\ fnErr' = [fnErr EXCEPT ![s] = scn.fn.err]
    /\ panicking' = [panicking EXCEPT ![s] = scn.fn.value]
    /\ pc' = [pc EXCEPT ![s] = SqAfterFn(scn.fn)]
    /\ UNCHANGED notTx
    /\ UNCHANGED <<scn, round, db, db0, txState, ret>>

SqRollback ==
    LET s == "sqlite" IN
    /\ pc[s] = "rollback"
    /\ Logged(s, "rollback")
    /\ DriverRollback(s, scn.rollback)
    /\ ret' = [ret EXCEPT ![s] =
                  Outcome("return", SqRollbackResult(scn.rollback, fnErr[s]), NoPanic)]
    /\ pc' = [pc EXCEPT ![s] = "done"]
    /\ UNCHANGED notTx
    /\ UNCHANGED <<scn, round, db0, txw, fnErr, panicking>>

\* variant: a failed Commit is followed by a Rollback
SqCommit_ThenRollback ==
    LET s == "sqlite" IN
    /\ pc[s] = "commit"
    /\ calls' = [calls EXCEPT ![s] =
                    IF scn.commit = NoErr THEN Append(calls[s], "commit")
                    ELSE calls[s] \o <<"commit", "rollback">>]
    /\ DriverCommit(s, scn.commit)
    /\ ret' = [ret EXCEPT ![s] = Outcome("return", SqCommitResult(scn.commit), NoPanic)]
    /\ pc' = [pc EXCEPT ![s] = "done"]
    /\ UNCHANGED notTx
    /\ UNCHANGED <<scn, round, db0, txw, fnErr, panicking>>

\* 392-396
SqCommit ==
    LET s == "sqlite" IN
    /\ pc[s] = "commit"
    /\ Logged(s, "commit")
    /\ DriverCommit(s, scn.commit)
    /\ ret' = [ret EXCEPT ![s] = Outcome("return", SqCommitResult(scn.commit), NoPanic)]
    /\ pc' = [pc EXCEPT ![s] = "done"]
    /\ UNCHANGED notTx
    /\ UNCHANGED <<scn, round, db0, txw, fnErr, panicking>>

\* 378-383: the deferred function with a panic in flight
SqDeferred ==
    LET s == "sqlite" IN
    /\ pc[s] = "deferred"
    /\ Logged(s, "rollback")
    /\ DriverRollback(s, scn.rollback)
    /\ ret' = [ret EXCEPT ![s] = Outcome("panic", NoErr, panicking[s])]
    /\ pc' = [pc EXCEPT ![s] = "done"]
    /\ UNCHANGED notTx
    /\ UNCHANGED <<scn, round, db0, txw, fnErr, panicking>>

(***************************************************************************)
(* The cache, src/cache.go.  Go strings and byte slices are sequences of   *)
(* characters; Redis is a map from store keys to entries, and each of its  *)
(* commands is atomic.                                                     *)
(***************************************************************************)
Callers == 1..NumCallers

\* the keys the callers use
Keys == {<<"k", "a">>, <<"k", "b">>}

\* CacheConfig.KeyPrefix (src/cache.go:49-50): none, or "p:"
Prefixes == {<<>>, <<"p", ":">>}

StoreKeys == Keys \cup {p \o k : p \in Prefixes, k \in Keys}

\* the ttl argument, in seconds; Redis takes 0 as "no expiry"
TTLs == {0, 1}

NoEntry == [present |-> FALSE, val |-> <<>>, ttl |-> 0]

Entry(value, ttl) == [present |-> TRUE, val |-> value, ttl |-> ttl]

\* redis.Nil, the cache-miss sentinel, and an error of the connection
RedisNil == NewError("redis: nil")
ErrConn == NewError("dial tcp: connection refused")
ErrCompute == NewError("user not found")
ErrUnsupportedType == NewError("json: unsupported type: chan int")

\* client.Get(ctx, k).Result()
RedisGet(st, sk, fail) ==
    IF fail # NoErr THEN [val |-> <<>>, err |-> fail]
    ELSE IF ~st[sk].present THEN [val |-> <<>>, err |-> RedisNil]
    ELSE [val |-> st[sk].val, err |-> NoErr]

\* client.Set(ctx, k, value, ttl): overwrites whatever the key holds
RedisSet(st, sk, value, ttl) == [st EXCEPT ![sk] = Entry(value, ttl)]

\* client.Del(ctx, k)
RedisDel(st, sk) == [st EXCEPT ![sk] = NoEntry]

\* the values a compute function returns as interface{}
GoValue(type, str, num) == [type |-> type, str |-> str, num |-> num]

GoNil == GoValue("nil", <<>>, 0)

Results ==
    {GoValue("string", <<"a">>, 0), GoValue("bytes", <<"b">>, 0),
     GoValue("int", <<>>, 42), GoValue("chan", <<>>, 0)}

\* what fn() returns: (result, nil) or (nil, err)
FnReturns ==
    {[result |-> r, err |-> NoErr] : r \in Results}
        \cup {[result |-> GoNil, err |-> ErrCompute]}

DigitChars == <<"0", "1", "2", "3", "4", "5", "6", "7", "8", "9">>

\* strconv's decimal form of an integer, as encoding/json writes it
RECURSIVE FormatInt(_)
FormatInt(n) ==
    IF n < 0 THEN <<"-">> \o FormatInt(-n)
    ELSE IF n < 10 THEN <<DigitChars[n + 1]>>
    ELSE FormatInt(n \div 10) \o <<DigitChars[(n % 10) + 1]>>

\* json.Marshal(v), for the values of Results (the strings of Results need
\* no escaping)
MarshalJSON(v) ==
    CASE v.type = "int" -> [data |-> FormatInt(v.num), err |-> NoErr]
      [] v.type = "nil" -> [data |-> <<"n", "u", "l", "l">>, err |-> NoErr]
      [] v.type = "string" -> [data |-> <<"\"">> \o v.str \o <<"\"">>, err |-> NoErr]
      [] OTHER -> [data |-> <<>>, err |-> ErrUnsupportedType]

\* variant: the key is used as it is given
key_Unprefixed(k) == k

\* Cache.key, src/cache.go:156-162
key(k) == IF prefix # <<>> THEN prefix \o k ELSE k

\* Cache.Get, src/cache.go:164-167
CacheGet(k, fail) == RedisGet(store, key(k), fail)

\* variant: the value is set only if the key is absent
CacheSet_IfAbsent(k, value, ttl, fail) ==
    IF fail # NoErr \/ store[key(k)].present THEN store
    ELSE RedisSet(store, key(k), value, ttl)

\* variant: the key is used without the prefix
CacheSet_Unprefixed(k, value, ttl, fail) ==
    IF fail # NoErr THEN store ELSE RedisSet(store, k, value, ttl)

\* Cache.Set, src/cache.go:169-172: the keyspace after the call
CacheSet(k, value, ttl, fail) ==
    IF fail # NoErr THEN store ELSE RedisSet(store, key(k), value, ttl)

\* variant: a value that was read is computed again
RememberAfterGet_ComputeOnHit(val, err) ==
    IF err = NoErr \/ err = RedisNil
    THEN [to |-> "compute", val |-> <<>>, err |-> NoErr]
    ELSE [to |-> "return", val |-> <<>>, err |-> err]

\* variant: every error of the read is taken for a miss
RememberAfterGet_ComputeOnError(val, err) ==
    IF err = NoErr THEN [to |-> "return", val |-> val, err |-> NoErr]
    ELSE [to |-> "compute", val |-> <<>>, err |-> NoErr]

\* Cache.Remember, src/cache.go:240-246: what the read's result leads to
RememberAfterGet(val, err) ==
    IF err = NoErr THEN [to |-> "return", val |-> val, err |-> NoErr]
    ELSE IF err # RedisNil THEN [to |-> "return", val |-> <<>>, err |-> err]
    ELSE [to |-> "compute", val |-> <<>>, err |-> NoErr]

\* variant: without the string case, strings go through json.Marshal
EncodeResult_QuoteStrings(result) ==
    IF result.type = "bytes" THEN [strVal |-> result.str, err |-> NoErr]
    ELSE IF MarshalJSON(result).err # NoErr
    THEN [strVal |-> <<>>,
          err |-> ErrorfW("failed to marshal result: ", MarshalJSON(result).err)]
    ELSE [strVal |-> MarshalJSON(result).data, err |-> NoErr]

\* src/cache.go:253-265: the string that is stored for fn's result
EncodeResult(result) ==
    IF result.type = "string" THEN [strVal |-> result.str, err |-> NoErr]
    ELSE IF result.type = "bytes" THEN [strVal |-> result.str, err |-> NoErr]
    ELSE IF MarshalJSON(result).err # NoErr
    THEN [strVal |-> <<>>,
          err |-> ErrorfW("failed to marshal result: ", MarshalJSON(result).err)]
    ELSE [strVal |-> MarshalJSON(result).data, err |-> NoErr]

NoCall == [some |-> FALSE, val |-> <<>>, err |-> NoErr, fnCalls |-> 0]

ReturnedCall(val, err, n) == [some |-> TRUE, val |-> val, err |-> err, fnCalls |-> n]

\* a caller that is not in a call of Remember
Idle ==
    [pc |-> "idle", key |-> <<>>, ttl |-> 0,
     readErr |-> NoErr, result |-> GoNil, strVal |-> <<>>,
     val |-> <<>>, err |-> NoErr, fnCalls |-> 0, sets |-> 0,
     first |-> NoCall, clean |-> FALSE, afterDelete |-> "no"]

\* calls of Remember begun so far by the callers of cs
RECURSIVE TotalCalls(_)
TotalCalls(cs) ==
    IF cs = {} THEN 0
    ELSE LET c == CHOOSE x \in cs : TRUE IN ncalls[c] + TotalCalls(cs \ {c})

\* the call returns (val, err): it becomes the last returned call on its key
Returns(c, r) ==
    /\ remember' = [remember EXCEPT ![c] = r]
    /\ prevCall' = [prevCall EXCEPT ![r.key] = ReturnedCall(r.val, r.err, r.fnCalls)]

\* src/cache.go:239-246: Remember is called and reads the key
RememberGet(c) ==
    /\ remember[c].pc \in {"idle", "done"}
    /\ TotalCalls(Callers) < MaxCalls
    /\ ncalls' = [ncalls EXCEPT ![c] = ncalls[c] + 1]
    /\ \E k \in Keys, ttl \in TTLs, fail \in {NoErr, ErrConn} :
          LET got == CacheGet(k, fail)
              after == RememberAfterGet(got.val, got.err)
              r == [Idle EXCEPT !.key = k, !.ttl = ttl, !.readErr = got.err,
                                !.first = prevCall[k], !.clean = ~touched[k],
                                !.afterDelete = deletedSince[k],
                                !.val = after.val, !.err = after.err,
                                !.pc = IF after.to = "return" THEN "done"
                                       ELSE "compute"]
          IN  /\ IF after.to = "return"
                 THEN /\ Returns(c, r)
                      /\ touched' = [touched EXCEPT ![k] = FALSE]
                 ELSE /\ remember' = [remember EXCEPT ![c] = r]
                      /\ UNCHANGED <<prevCall, touched>>
              /\ deletedSince' = [deletedSince EXCEPT ![k] = "no"]
    /\ UNCHANGED <<prefix, store>>
    /\ UNCHANGED notCache

\* src/cache.go:248-265: fn is invoked and its result encoded
RememberCompute(c) ==
    /\ remember[c].pc = "compute"
    /\ \E out \in FnReturns :
          LET enc == EncodeResult(out.result)
              called == [remember[c] EXCEPT !.fnCalls = @ + 1, !.result = out.result]
          IN  IF out.err # NoErr
              THEN /\ Returns(c, [called EXCEPT !.pc = "done", !.err = out.err])
                   /\ touched' = [touched EXCEPT ![remember[c].key] = FALSE]
              ELSE IF enc.err # NoErr
              THEN /\ Returns(c, [called EXCEPT !.pc = "done", !.err = enc.err])
                   /\ touched' = [touched EXCEPT ![remember[c].key] = FALSE]
              ELSE /\ remember' = [remember EXCEPT ![c] =
                                      [called EXCEPT !.pc = "set", !.strVal = enc.strVal]]
                   /\ UNCHANGED <<prevCall, touched>>
    /\ UNCHANGED <<prefix, store, ncalls, deletedSince>>
    /\ UNCHANGED notCache

\* variant: the computed value is returned with the error of the write
RememberSet_ReturnsValue(c) ==
    /\ remember[c].pc = "set"
    /\ \E fail \in {NoErr, ErrConn} :
          LET me == remember[c]
              wrote == [me EXCEPT !.sets = @ + 1, !.pc = "done"]
          IN  /\ store' = CacheSet(me.key, me.strVal, me.ttl, fail)
              /\ Returns(c, [wrote EXCEPT !.err = fail, !.val = me.strVal])
              /\ touched' = [touched EXCEPT ![me.key] = FALSE]
    /\ UNCHANGED <<prefix, ncalls, deletedSince>>
    /\ UNCHANGED notCache

\* src/cache.go:267-271: the encoded result is written and returned
RememberSet(c) ==
    /\ remember[c].pc = "set"
    /\ \E fail \in {NoErr, ErrConn} :
          LET me == remember[c]
              wrote == [me EXCEPT !.sets = @ + 1, !.pc = "done"]
          IN  /\ store' = CacheSet(me.key, me.strVal, me.ttl, fail)
              /\ IF fail # NoErr
                 THEN Returns(c, [wrote EXCEPT !.err = fail])
                 ELSE Returns(c, [wrote EXCEPT !.val = me.strVal])
              /\ touched' = [touched EXCEPT ![me.key] = FALSE]
    /\ UNCHANGED <<prefix, ncalls, deletedSince>>
    /\ UNCHANGED notCache

\* a call of Remember on the key has read it and is still to write it
InFlight(k) ==
    \E c \in Callers : remember[c].pc \in {"compute", "set"} /\ remember[c].key = k

Deleted(k) ==
    deletedSince' = [deletedSince EXCEPT ![k] = IF InFlight(k) THEN "raced" ELSE "clean"]

\* variant: the key is used without the prefix
CacheDelete_Unprefixed(k) ==
    /\ deletedSince[k] = "no"
    /\ store' = RedisDel(store, k)
    /\ touched' = [touched EXCEPT ![k] = TRUE]
    /\ Deleted(k)
    /\ UNCHANGED <<prefix, remember, ncalls, prevCall>>
    /\ UNCHANGED notCache

\* Cache.Delete, src/cache.go:192-199, called by other code of the program,
\* whether the key is there or not
CacheDelete(k) ==
    /\ deletedSince[k] = "no"
    /\ store' = RedisDel(store, key(k))
    /\ touched' = [touched EXCEPT ![k] = TRUE]
    /\ Deleted(k)
    /\ UNCHANGED <<prefix, remember, ncalls, prevCall>>
    /\ UNCHANGED notCache

\* Redis drops an entry whose time to live has run out
RedisExpire(k) ==
    /\ store[key(k)].present
    /\ store[key(k)].ttl > 0
    /\ store' = RedisDel(store, key(k))
    /\ touched' = [touched EXCEPT ![k] = TRUE]
    /\ Deleted(k)
    /\ UNCHANGED <<prefix, remember, ncalls, prevCall>>
    /\ UNCHANGED notCache

(***************************************************************************)
(* The other key-taking methods of Cache, src/cache.go:164-307.  Each is   *)
(* one Redis command on the prefixed key, but RememberJSON, which reads,   *)
(* computes and writes in three steps that other calls may come between.   *)
(***************************************************************************)
ErrSyntax == NewError("invalid character 'a' looking for beginning of value")
ErrUnmarshalType == NewError("json: cannot unmarshal value into Go value")
ErrNotInteger == NewError("ERR value is not an integer or out of range")

IsDigit(ch) == \E i \in 1..10 : DigitChars[i] = ch

DigitValue(ch) == (CHOOSE i \in 1..10 : DigitChars[i] = ch) - 1

\* a decimal integer as JSON and Redis take it: -?(0|[1-9][0-9]*)
IsDecimal(s) ==
    LET d == IF s # <<>> /\ s[1] = "-" THEN Tail(s) ELSE s
    IN  /\ d # <<>>
        /\ \A i \in 1..Len(d) : IsDigit(d[i])
        /\ Len(d) > 1 => d[1] # "0"

RECURSIVE ParseDigits(_)
ParseDigits(d) ==
    IF d = <<>> THEN 0
    ELSE ParseDigits(SubSeq(d, 1, Len(d) - 1)) * 10 + DigitValue(d[Len(d)])

ParseInt(s) == IF s[1] = "-" THEN 0 - ParseDigits(Tail(s)) ELSE ParseDigits(s)

\* a JSON string without escapes
IsJSONString(s) ==
    /\ Len(s) >= 2
    /\ s[1] = "\"" /\ s[Len(s)] = "\""
    /\ \A i \in 2..(Len(s) - 1) : s[i] \notin {"\"", "\\"}

\* json.Unmarshal(data, dest) for dest a *int or a *string: what dest points
\* to afterwards, and the error.  null leaves dest as it is; a value of the
\* other type, or text that is not JSON, is an error and leaves dest as it is.
UnmarshalJSON(data, dest) ==
    IF data = <<"n", "u", "l", "l">> THEN [dest |-> dest, err |-> NoErr]
    ELSE IF IsDecimal(data)
    THEN IF dest.type = "int"
         THEN [dest |-> GoValue("int", <<>>, ParseInt(data)), err |-> NoErr]
         ELSE [dest |-> dest, err |-> ErrUnmarshalType]
    ELSE IF IsJSONString(data)
    THEN IF dest.type = "string"
         THEN [dest |-> GoValue("string", SubSeq(data, 2, Len(data) - 1), 0),
               err |-> NoErr]
         ELSE [dest |-> dest, err |-> ErrUnmarshalType]
    ELSE [dest |-> dest, err |-> ErrSyntax]

\* client.SetNX(ctx, k, value, ttl).Result(): one atomic set-if-absent
RedisSetNX(st, sk, value, ttl) ==
    IF st[sk].present THEN [store |-> st, ok |-> FALSE]
    ELSE [store |-> RedisSet(st, sk, value, ttl), ok |-> TRUE]

\* client.IncrBy(ctx, k, n).Result(): an absent key counts as 0; the time to
\* live of the key is kept
RedisIncrBy(st, sk, n) ==
    LET cur == IF st[sk].present THEN st[sk].val ELSE <<"0">>
    IN  IF ~IsDecimal(cur) THEN [store |-> st, num |-> 0, err |-> ErrNotInteger]
        ELSE [store |-> [st EXCEPT ![sk] =
                            Entry(FormatInt(ParseInt(cur) + n), st[sk].ttl)],
              num |-> ParseInt(cur) + n, err |-> NoErr]

\* client.Expire(ctx, k, ttl): a time to live of zero deletes the key
RedisExpireKey(st, sk, ttl) ==
    IF ~st[sk].present THEN st
    ELSE IF ttl <= 0 THEN RedisDel(st, sk)
    ELSE [st EXCEPT ![sk] = Entry(st[sk].val, ttl)]

\* client.TTL(ctx, k).Result(): -2 for no key, -1 for a key without expiry
RedisTTL(st, sk) ==
    IF ~st[sk].present THEN 0 - 2
    ELSE IF st[sk].ttl = 0 THEN 0 - 1
    ELSE st[sk].ttl

\* client.Del(ctx, ks...)
RECURSIVE RedisDelAll(_, _)
RedisDelAll(st, sks) ==
    IF sks = {} THEN st
    ELSE LET sk == CHOOSE x \in sks : TRUE
         IN  RedisDelAll(RedisDel(st, sk), sks \ {sk})

\* the values the callers give to Set and to SetNX
SetValues == {<<"a">>, <<"7">>}
Owners == {<<"o", "1">>, <<"o", "2">>}

\* the values RememberJSON's fn and the callers of SetJSON produce
JSONResults ==
    {GoValue("string", <<"a">>, 0), GoValue("int", <<>>, 42),
     GoValue("chan", <<>>, 0), GoNil}

FnJSONReturns ==
    {[result |-> r, err |-> NoErr] : r \in JSONResults}
        \cup {[result |-> GoNil, err |-> ErrCompute]}

\* what dest points to when GetJSON or RememberJSON is called
Dests == {GoValue("int", <<>>, 0), GoValue("int", <<>>, 5), GoValue("string", <<>>, 0)}

\* Cache.GetJSON, src/cache.go:174-181
CacheGetJSON(k, dest, fail) ==
    LET got == RedisGet(store, key(k), fail)
    IN  IF got.err # NoErr THEN [dest |-> dest, err |-> got.err]
        ELSE UnmarshalJSON(got.val, dest)

\* Cache.SetJSON, src/cache.go:183-190: the keyspace after the call, the
\* error, and the keys client.Set was called with
CacheSetJSON(k, value, ttl, fail) ==
    LET m == MarshalJSON(value)
    IN  IF m.err # NoErr
        THEN [store |-> store, sent |-> {},
              err |-> ErrorfW("failed to marshal value: ", m.err)]
        ELSE IF fail # NoErr
        THEN [store |-> store, sent |-> {key(k)}, err |-> fail]
        ELSE [store |-> RedisSet(store, key(k), m.data, ttl),
              sent |-> {key(k)}, err |-> NoErr]

\* variant: Set is called in place of SetNX
CacheSetNX_AsSet(k, value, ttl, fail) ==
    IF fail # NoErr THEN [store |-> store, ok |-> FALSE, err |-> fail]
    ELSE [store |-> RedisSet(store, key(k), value, ttl), ok |-> TRUE,
          err |-> NoErr]

\* Cache.SetNX, src/cache.go:227-230
CacheSetNX(k, value, ttl, fail) ==
    IF fail # NoErr THEN [store |-> store, ok |-> FALSE, err |-> fail]
    ELSE [store |-> RedisSetNX(store, key(k), value, ttl).store,
          ok |-> RedisSetNX(store, key(k), value, ttl).ok, err |-> NoErr]

\* variant: a value that fails to decode is computed again
RememberJSONAfterGet_ComputeOnError(err) ==
    IF err = NoErr THEN "return" ELSE "compute"

\* Cache.RememberJSON, src/cache.go:285-291: what GetJSON's error leads to
RememberJSONAfterGet(err) ==
    IF err = NoErr THEN "return"
    ELSE IF err # RedisNil THEN "return"
    ELSE "compute"

NoRes == [val |-> <<>>, num |-> 0, ok |-> FALSE, dest |-> GoNil, err |-> NoErr]

NoArg == [val |-> <<>>, ttl |-> 0]

NoOp == [name |-> "", keys |-> {}, sent |-> {}, arg |-> NoArg, res |-> NoRes]

\* a call of the method `name` on the keys ks, whose Redis command was given
\* the keys of sent, has returned res
Called(name, ks, sent, arg, res) ==
    /\ lastOp' = [name |-> name, keys |-> ks, sent |-> sent, arg |-> arg,
                  res |-> res]
    /\ nops' = nops + 1

RJIdle ==
    [pc |-> "idle", key |-> <<>>, ttl |-> 0, dest0 |-> GoNil, dest |-> GoNil,
     readErr |-> NoErr, result |-> GoNil, err |-> NoErr,
     fnCalls |-> 0, sets |-> 0]

\* the calls of the methods are bounded, those of Remember included
CallsLeft == nops + TotalCalls(Callers) < MaxOps

\* Cache.Get, src/cache.go:164-167
Get(k) ==
    /\ CallsLeft
    /\ \E fail \in {NoErr, ErrConn} :
          LET got == CacheGet(k, fail)
          IN  Called("Get", {k}, {key(k)}, NoArg,
                     [NoRes EXCEPT !.val = got.val, !.err = got.err])
    /\ UNCHANGED <<prefix, store, rj, won>>
    /\ UNCHANGED notOps

\* Cache.Set, src/cache.go:169-172
Set(k) ==
    /\ CallsLeft
    /\ \E value \in SetValues, ttl \in TTLs, fail \in {NoErr, ErrConn} :
          /\ store' = CacheSet(k, value, ttl, fail)
          /\ Called("Set", {k}, {key(k)}, [val |-> value, ttl |-> ttl],
                    [NoRes EXCEPT !.err = fail])
    /\ UNCHANGED <<prefix, rj, won>>
    /\ UNCHANGED notOps

\* Cache.GetJSON, src/cache.go:174-181
GetJSON(k) ==
    /\ CallsLeft
    /\ \E dest \in Dests, fail \in {NoErr, ErrConn} :
          LET got == CacheGetJSON(k, dest, fail)
          IN  Called("GetJSON", {k}, {key(k)}, NoArg,
                     [NoRes EXCEPT !.dest = got.dest, !.err = got.err])
    /\ UNCHANGED <<prefix, store, rj, won>>
    /\ UNCHANGED notOps

\* Cache.SetJSON, src/cache.go:183-190
SetJSON(k) ==
    /\ CallsLeft
    /\ \E value \in JSONResults, ttl \in TTLs, fail \in {NoErr, ErrConn} :
          LET w == CacheSetJSON(k, value, ttl, fail)
          IN  /\ store' = w.store
              /\ Called("SetJSON", {k}, w.sent, [val |-> <<>>, ttl |-> ttl],
                        [NoRes EXCEPT !.err = w.err])
    /\ UNCHANGED <<prefix, rj, won>>
    /\ UNCHANGED notOps

\* Cache.Delete, src/cache.go:192-199
Delete(ks) ==
    /\ CallsLeft
    /\ \E fail \in {NoErr, ErrConn} :
          LET prefixed == {key(k) : k \in ks}
          IN  /\ store' = IF fail # NoErr THEN store
                          ELSE RedisDelAll(store, prefixed)
              /\ won' = IF fail # NoErr THEN won
                        ELSE [sk \in StoreKeys |->
                                 IF sk \in prefixed THEN 0 ELSE won[sk]]
              /\ Called("Delete", ks, prefixed, NoArg,
                        [NoRes EXCEPT !.err = fail])
    /\ UNCHANGED <<prefix, rj>>
    /\ UNCHANGED notOps

\* Cache.Exists, src/cache.go:201-205
Exists(k) ==
    /\ CallsLeft
    /\ \E fail \in {NoErr, ErrConn} :
          Called("Exists", {k}, {key(k)}, NoArg,
                 [NoRes EXCEPT !.ok = (fail = NoErr /\ store[key(k)].present),
                               !.err = fail])
    /\ UNCHANGED <<prefix, store, rj, won>>
    /\ UNCHANGED notOps

\* Cache.Expire, src/cache.go:207-210
Expire(k) ==
    /\ CallsLeft
    /\ \E ttl \in TTLs, fail \in {NoErr, ErrConn} :
          /\ store' = IF fail # NoErr THEN store
                      ELSE RedisExpireKey(store, key(k), ttl)
          /\ won' = IF fail = NoErr /\ ttl <= 0
                    THEN [won EXCEPT ![key(k)] = 0] ELSE won
          /\ Called("Expire", {k}, {key(k)}, [val |-> <<>>, ttl |-> ttl],
                    [NoRes EXCEPT !.err = fail])
    /\ UNCHANGED <<prefix, rj>>
    /\ UNCHANGED notOps

\* Cache.TTL, src/cache.go:212-215
TTL(k) ==
    /\ CallsLeft
    /\ \E fail \in {NoErr, ErrConn} :
          Called("TTL", {k}, {key(k)}, NoArg,
                 [NoRes EXCEPT !.num = IF fail # NoErr THEN 0
                                       ELSE RedisTTL(store, key(k)),
                               !.err = fail])
    /\ UNCHANGED <<prefix, store, rj, won>>
    /\ UNCHANGED notOps

\* Cache.Incr, src/cache.go:217-220
Incr(k) ==
    /\ CallsLeft
    /\ \E fail \in {NoErr, ErrConn} :
          LET r == RedisIncrBy(store, key(k), 1)
          IN  /\ store' = IF fail # NoErr THEN store ELSE r.store
              /\ Called("Incr", {k}, {key(k)}, NoArg,
                        [NoRes EXCEPT !.num = IF fail # NoErr THEN 0 ELSE r.num,
                                      !.err = IF fail # NoErr THEN fail ELSE r.err])
    /\ UNCHANGED <<prefix, rj, won>>
    /\ UNCHANGED notOps

\* Cache.IncrBy, src/cache.go:222-225
IncrBy(k) ==
    /\ CallsLeft
    /\ \E n \in {10}, fail \in {NoErr, ErrConn} :
          LET r == RedisIncrBy(store, key(k), n)
          IN  /\ store' = IF fail # NoErr THEN store ELSE r.store
              /\ Called("IncrBy", {k}, {key(k)}, NoArg,
                        [NoRes EXCEPT !.num = IF fail # NoErr THEN 0 ELSE r.num,
                                      !.err = IF fail # NoErr THEN fail ELSE r.err])
    /\ UNCHANGED <<prefix, rj, won>>
    /\ UNCHANGED notOps

\* Cache.SetNX, src/cache.go:227-230
SetNX(k) ==
    /\ CallsLeft
    /\ \E value \in Owners, ttl \in TTLs, fail \in {NoErr, ErrConn} :
          LET r == CacheSetNX(k, value, ttl, fail)
          IN  /\ store' = r.store
              /\ won' = IF r.ok THEN [won EXCEPT ![key(k)] = @ + 1] ELSE won
              /\ Called("SetNX", {k}, {key(k)}, [val |-> value, ttl |-> ttl],
                        [NoRes EXCEPT !.ok = r.ok, !.err = r.err])
    /\ UNCHANGED <<prefix, rj>>
    /\ UNCHANGED notOps

\* src/cache.go:283-291: RememberJSON is called and reads the key into dest
RememberJSONGet ==
    /\ rj.pc \in {"idle", "done"}
    /\ CallsLeft
    /\ \E k \in Keys, ttl \in TTLs, dest \in Dests, fail \in {NoErr, ErrConn} :
          LET got == CacheGetJSON(k, dest, fail)
              to == RememberJSONAfterGet(got.err)
          IN  /\ rj' = [RJIdle EXCEPT !.key = k, !.ttl = ttl, !.dest0 = dest,
                                      !.dest = got.dest, !.readErr = got.err,
                                      !.err = IF to = "return" THEN got.err
                                              ELSE NoErr,
                                      !.pc = IF to = "return" THEN "done"
                                             ELSE "compute"]
              /\ Called("RememberJSON", {k}, {key(k)}, NoArg,
                        [NoRes EXCEPT !.dest = got.dest, !.err = got.err])
    /\ UNCHANGED <<prefix, store, won>>
    /\ UNCHANGED notOps

\* src/cache.go:293-297: fn is invoked
RememberJSONCompute ==
    /\ rj.pc = "compute"
    /\ \E out \in FnJSONReturns :
          rj' = [rj EXCEPT !.fnCalls = @ + 1, !.result = out.result,
                           !.err = out.err,
                           !.pc = IF out.err # NoErr THEN "done" ELSE "set"]
    /\ UNCHANGED <<prefix, store, lastOp, won, nops>>
    /\ UNCHANGED notOps

\* src/cache.go:299-306: fn's result is written as JSON, then decoded into
\* dest
RememberJSONSet ==
    /\ rj.pc = "set"
    /\ \E fail \in {NoErr, ErrConn} :
          LET w == CacheSetJSON(rj.key, rj.result, rj.ttl, fail)
              u == UnmarshalJSON(MarshalJSON(rj.result).data, rj.dest)
          IN  /\ store' = w.store
              /\ rj' = [rj EXCEPT !.pc = "done",
                                  !.sets = IF w.sent # {} THEN @ + 1 ELSE @,
                                  !.dest = IF w.err # NoErr THEN @ ELSE u.dest,
                                  !.err = IF w.err # NoErr THEN w.err ELSE u.err]
              /\ lastOp' = [name |-> "RememberJSON", keys |-> {rj.key},
                            sent |-> w.sent,
                            arg |-> [val |-> <<>>, ttl |-> rj.ttl],
                            res |-> [NoRes EXCEPT !.err = w.err]]
    /\ UNCHANGED <<prefix, won, nops>>
    /\ UNCHANGED notOps

\* a call of Cache.Remember, src/cache.go:239-246, among the other calls
RememberCalled(c) == CallsLeft /\ RememberGet(c)

\* Redis drops an entry whose time to live has run out
EntryExpires(sk) ==
    /\ store[sk].present
    /\ store[sk].ttl > 0
    /\ store' = RedisDel(store, sk)
    /\ won' = [won EXCEPT ![sk] = 0]
    /\ UNCHANGED <<prefix, rj, lastOp, nops>>
    /\ UNCHANGED notOps

(***************************************************************************)
(* The state file: SaveState and LoadState, src/log.go:146-226.  The state *)
(* type is the struct of the tests and the README: a string field and an   *)
(* int field, both written by encoding/json.  A file is a sequence of      *)
(* pieces of text: the punctuation encoding/json writes, and the           *)
(* characters of the values.                                               *)
(***************************************************************************)
AppNames == {"app1", "app2"}
Filenames == {"state.json"}

\* testState, src/state_test.go:13-16
State(name, count) == [name |-> name, count |-> count]

ZeroState == State(<<>>, 0)

States == {State(n, c) : n \in {<<>>, <<"t">>, <<"\"", "\\">>}, c \in {0, 42}}

\* os.ErrNotExist, and the errors of the file system that wrap it or not
ErrNotExist == NewError("file does not exist")
ErrENOENT == [msg |-> <<"open: no such file or directory">>, wraps |-> <<ErrNotExist>>]
ErrEACCES == NewError("open: permission denied")
ErrNoHome == NewError("neither $XDG_CONFIG_HOME nor $HOME are defined")
ErrUnexpectedEnd == NewError("unexpected end of JSON input")

\* stateDir, src/log.go:220-226: the directory, or <<>> with the error of
\* os.UserConfigDir
stateDir(appName, cfgErr) ==
    IF cfgErr # NoErr THEN [dir |-> <<>>, err |-> cfgErr]
    ELSE [dir |-> <<appName>>, err |-> NoErr]

\* StatePath, src/log.go:211-217: the empty path when stateDir fails
StatePath(appName, filename, cfgErr) ==
    IF stateDir(appName, cfgErr).err # NoErr THEN <<>>
    ELSE stateDir(appName, cfgErr).dir \o <<filename>>

Paths == {<<a, f>> : a \in AppNames, f \in Filenames} \cup {<<>>}

NoFile == [exists |-> FALSE, content |-> <<>>]

File(content) == [exists |-> TRUE, content |-> content]

\* encoding/json's escaping of a string
RECURSIVE EscapeString(_)
EscapeString(str) ==
    IF str = <<>> THEN <<>>
    ELSE IF Head(str) \in {"\"", "\\"}
    THEN <<"\\", Head(str)>> \o EscapeString(Tail(str))
    ELSE <<Head(str)>> \o EscapeString(Tail(str))

\* json.MarshalIndent(data, "", "  ") of a state
MarshalIndent(st) ==
    <<"{", "\n  ", "\"name\": ", "\"">> \o EscapeString(st.name)
        \o <<"\"", ",", "\n  ", "\"count\": ">> \o FormatInt(st.count)
        \o <<"\n", "}">>

\* the JSON string that begins after position i of content: its characters,
\* and the position after its closing quote (0 when it is not closed)
RECURSIVE ScanString(_, _, _)
ScanString(content, i, acc) ==
    IF i > Len(content) THEN [str |-> acc, next |-> 0]
    ELSE IF content[i] = "\"" THEN [str |-> acc, next |-> i + 1]
    ELSE IF content[i] = "\\"
    THEN IF i + 1 <= Len(content) /\ content[i + 1] \in {"\"", "\\"}
         THEN ScanString(content, i + 2, Append(acc, content[i + 1]))
         ELSE [str |-> acc, next |-> 0]
    ELSE ScanString(content, i + 1, Append(acc, content[i]))

\* the position after the digits and signs that begin at position i
RECURSIVE ScanNumber(_, _)
ScanNumber(content, i) ==
    IF i <= Len(content) /\ (IsDigit(content[i]) \/ content[i] = "-")
    THEN ScanNumber(content, i + 1)
    ELSE i

\* content has the pieces of lit at position i
HasAt(content, i, lit) ==
    /\ i >= 1
    /\ i + Len(lit) - 1 <= Len(content)
    /\ SubSeq(content, i, i + Len(lit) - 1) = lit

\* json.Unmarshal(content, &result) for a state: one object with the two
\* fields and nothing after it
UnmarshalState(content) ==
    IF content = <<>> THEN [val |-> ZeroState, err |-> ErrUnexpectedEnd]
    ELSE IF ~HasAt(content, 1, <<"{", "\n  ", "\"name\": ", "\"">>)
    THEN [val |-> ZeroState, err |-> ErrSyntax]
    ELSE LET n == ScanString(content, 5, <<>>)
             d == ScanNumber(content, n.next + 3)
         IN  IF /\ n.next # 0
                /\ HasAt(content, n.next, <<",", "\n  ", "\"count\": ">>)
                /\ IsDecimal(SubSeq(content, n.next + 3, d - 1))
                /\ HasAt(content, d, <<"\n", "}">>)
                /\ Len(content) = d + 1
             THEN [val |-> State(n.str, ParseInt(SubSeq(content, n.next + 3, d - 1))),
                   err |-> NoErr]
             ELSE [val |-> ZeroState, err |-> ErrSyntax]

\* variant: the file is opened for append
WriteFile_Append(files, path, content, fail) ==
    IF fail = "open" THEN [fs |-> files, err |-> ErrEACCES]
    ELSE IF fail = "write"
    THEN [fs |-> [files EXCEPT ![path] = File(files[path].content)], err |-> ErrEACCES]
    ELSE [fs |-> [files EXCEPT ![path] = File(files[path].content \o content)],
          err |-> NoErr]

\* os.WriteFile(path, content, 0644): the file is created or truncated, then
\* written; a failure to open leaves it as it was, a failure to write leaves
\* it empty
WriteFile(files, path, content, fail) ==
    IF fail = "open" THEN [fs |-> files, err |-> ErrEACCES]
    ELSE IF fail = "write"
    THEN [fs |-> [files EXCEPT ![path] = File(<<>>)], err |-> ErrEACCES]
    ELSE [fs |-> [files EXCEPT ![path] = File(content)], err |-> NoErr]

\* os.ReadFile(path)
ReadFile(files, path, fail) ==
    IF ~files[path].exists THEN [content |-> <<>>, err |-> ErrENOENT]
    ELSE IF fail # "ok" THEN [content |-> <<>>, err |-> ErrEACCES]
    ELSE [content |-> files[path].content, err |-> NoErr]

\* SaveState, src/log.go:146-167: the files after the call, and the error
SaveStateResult(files, appName, filename, data, cfgErr, fail) ==
    LET d == stateDir(appName, cfgErr)
        w == WriteFile(files, d.dir \o <<filename>>, MarshalIndent(data), fail)
    IN  IF d.err # NoErr
        THEN [fs |-> files, err |-> ErrorfW("get config dir: ", d.err)]
        ELSE IF fail = "mkdir"
        THEN [fs |-> files, err |-> ErrorfW("create config dir: ", ErrEACCES)]
        ELSE IF w.err # NoErr
        THEN [fs |-> w.fs, err |-> ErrorfW("write state file: ", w.err)]
        ELSE [fs |-> w.fs, err |-> NoErr]

\* variant: every error of the read is wrapped
LoadStateResult_WrapAll(files, appName, filename, cfgErr, fail) ==
    LET r == ReadFile(files, StatePath(appName, filename, cfgErr), fail)
        u == UnmarshalState(r.content)
    IN  IF r.err # NoErr
        THEN [val |-> ZeroState, err |-> ErrorfW("read state file: ", r.err)]
        ELSE IF u.err # NoErr
        THEN [val |-> ZeroState, err |-> ErrorfW("unmarshal state: ", u.err)]
        ELSE [val |-> u.val, err |-> NoErr]

\* LoadState, src/log.go:183-201
LoadStateResult(files, appName, filename, cfgErr, fail) ==
    LET r == ReadFile(files, StatePath(appName, filename, cfgErr), fail)
        u == UnmarshalState(r.content)
    IN  IF r.err # NoErr
        THEN IF ErrorsIs(r.err, ErrNotExist)
             THEN [val |-> ZeroState, err |-> ErrNotExist]
             ELSE [val |-> ZeroState, err |-> ErrorfW("read state file: ", r.err)]
        ELSE IF u.err # NoErr
        THEN [val |-> ZeroState, err |-> ErrorfW("unmarshal state: ", u.err)]
        ELSE [val |-> u.val, err |-> NoErr]

NoSave == [some |-> FALSE, val |-> ZeroState, saves |-> 0, failed |-> FALSE]

NoIO == [op |-> "", path |-> <<>>, cfgErr |-> NoErr, fail |-> "ok",
         read |-> NoErr, val |-> ZeroState, err |-> NoErr]

\* SaveState, src/log.go:146-167
SaveState(appName, filename) ==
    /\ nio < MaxIO
    /\ \E data \in States, cfgErr \in {NoErr, ErrNoHome},
          fail \in {"ok", "mkdir", "open", "write"} :
          LET r == SaveStateResult(fs, appName, filename, data, cfgErr, fail)
              path == <<appName, filename>>
          IN  /\ fs' = r.fs
              /\ saved' = [saved EXCEPT ![path] =
                              IF r.err = NoErr
                              THEN [@ EXCEPT !.some = TRUE, !.val = data,
                                             !.saves = @ + 1, !.failed = FALSE]
                              ELSE [@ EXCEPT !.failed = TRUE]]
              /\ io' = [NoIO EXCEPT !.op = "save", !.path = path,
                                    !.cfgErr = cfgErr, !.fail = fail,
                                    !.val = data, !.err = r.err]
    /\ nio' = nio + 1
    /\ UNCHANGED notState

\* LoadState, src/log.go:183-201
LoadState(appName, filename) ==
    /\ nio < MaxIO
    /\ \E cfgErr \in {NoErr, ErrNoHome}, fail \in {"ok", "read"} :
          LET r == LoadStateResult(fs, appName, filename, cfgErr, fail)
              path == <<appName, filename>>
          IN  io' = [NoIO EXCEPT !.op = "load", !.path = path,
                                 !.cfgErr = cfgErr, !.fail = fail,
                                 !.read = ReadFile(fs, StatePath(appName, filename, cfgErr), fail).err,
                                 !.val = r.val, !.err = r.err]
    /\ nio' = nio + 1
    /\ UNCHANGED <<fs, saved>>
    /\ UNCHANGED notState

(***************************************************************************)
(* The file logger: NewFileLogger, src/log.go:91-119 (and the same code in *)
(* logger.NewFile, src/logger/logger.go:94-122).  A logger writes each     *)
(* record with one write to its file, which is open for append.            *)
(***************************************************************************)
LoggerIds == 1..NumLoggers

\* LogPath, src/log.go:117-119
LogPath(appName) == <<appName, ".log">>

LogPaths == {LogPath(a) : a \in AppNames}

Messages == {"first message", "second message"}

\* the line slog's JSON handler writes for a record
LogLine(level, msg) == <<"{\"level\":\"", level, "\",\"msg\":\"", msg, "\"}", "\n">>

\* variant: the file is truncated when it is opened
OpenFile_Truncate(files, path, fail) ==
    IF fail # NoErr THEN [files |-> files, err |-> fail]
    ELSE [files |-> [files EXCEPT ![path] = File(<<>>)], err |-> NoErr]

\* os.OpenFile(path, os.O_APPEND|os.O_CREATE|os.O_WRONLY, 0644): the file is
\* created empty if there is none, and left as it is otherwise
OpenFile(files, path, fail) ==
    IF fail # NoErr THEN [files |-> files, err |-> fail]
    ELSE IF files[path].exists THEN [files |-> files, err |-> NoErr]
    ELSE [files |-> [files EXCEPT ![path] = File(<<>>)], err |-> NoErr]

\* a write to a file that is open for append: the bytes go to its end
AppendWrite(files, path, entry) ==
    [files EXCEPT ![path] = File(files[path].content \o <<entry>>)]

NoLogger == [state |-> "none", path |-> <<>>]

\* NewFileLogger, src/log.go:91-109
NewFileLogger(l, appName) ==
    /\ nlog < MaxLogCalls
    /\ loggers[l].state \in {"none", "closed"}
    /\ \E fail \in {NoErr, ErrEACCES} :
          LET o == OpenFile(logFiles, LogPath(appName), fail)
          IN  /\ logFiles' = o.files
              /\ loggers' = [loggers EXCEPT ![l] =
                                IF o.err # NoErr THEN NoLogger
                                ELSE [state |-> "open", path |-> LogPath(appName)]]
    /\ nlog' = nlog + 1
    /\ UNCHANGED logged
    /\ UNCHANGED notLog

\* logger.Info(msg) and the like, on the logger NewFileLogger returned; a
\* record written after the cleanup is lost, the file being closed
LoggerLog(l) ==
    /\ nlog < MaxLogCalls
    /\ loggers[l].state # "none"
    /\ \E level \in {"INFO", "DEBUG"}, msg \in Messages :
          IF loggers[l].state = "open"
          THEN /\ logFiles' = AppendWrite(logFiles, loggers[l].path, LogLine(level, msg))
               /\ logged' = [logged EXCEPT ![loggers[l].path] =
                                Append(@, LogLine(level, msg))]
          ELSE UNCHANGED <<logFiles, logged>>
    /\ nlog' = nlog + 1
    /\ UNCHANGED loggers
    /\ UNCHANGED notLog

\* the cleanup function NewFileLogger returned, src/log.go:104-106
LoggerCleanup(l) ==
    /\ nlog < MaxLogCalls
    /\ loggers[l].state = "open"
    /\ loggers' = [loggers EXCEPT ![l].state = "closed"]
    /\ nlog' = nlog + 1
    /\ UNCHANGED <<logFiles, logged>>
    /\ UNCHANGED notLog

(***************************************************************************)
(* The editor input: CaptureInputWithEditor, src/cli/editor_test.go:       *)
(* 144-197.  The editor is a program of the user's: it may not start, and  *)
(* when it runs it may rewrite or remove the file it is given and exit     *)
(* with any status.                                                        *)
(***************************************************************************)
\* the texts of at most n characters
RECURSIVE TextsUpTo(_)
TextsUpTo(n) ==
    IF n = 0 THEN {<<>>}
    ELSE TextsUpTo(n - 1)
            \cup {Append(t, ch) : t \in TextsUpTo(n - 1), ch \in {"a", "\n"}}

Texts == TextsUpTo(MaxLen)

Extensions == {<<>>, <<"m", "d">>}

ErrNotFound == NewError("exec: executable file not found in $PATH")
ErrExitStatus == NewError("exit status 1")
ErrDiskFull == NewError("no space left on device")

\* variant: strings.TrimSuffix, which removes one newline
TrimRight_One(str) ==
    IF str # <<>> /\ str[Len(str)] = "\n" THEN SubSeq(str, 1, Len(str) - 1)
    ELSE str

\* strings.TrimRight(str, "\n")
RECURSIVE TrimRight(_)
TrimRight(str) ==
    IF str # <<>> /\ str[Len(str)] = "\n"
    THEN TrimRight(SubSeq(str, 1, Len(str) - 1))
    ELSE str

\* src/cli/editor_test.go:146-149: the pattern of the temp file's name
TempPattern(extension) ==
    IF extension # <<>> THEN <<"gokart-input-*.">> \o extension
    ELSE <<"gokart-input-*">>

\* what the editor does to the file it is given
Edits == {[kind |-> "keep", text |-> <<>>], [kind |-> "remove", text |-> <<>>]}
            \cup {[kind |-> "write", text |-> t] : t \in Texts}

Edited(file, edit) ==
    CASE edit.kind = "keep" -> file
      [] edit.kind = "remove" -> NoFile
      [] edit.kind = "write" -> File(edit.text)

\* variant: the file is read whatever cmd.Run returned
AfterRun_IgnoreError(runErr) == "read"

\* src/cli/editor_test.go:183-185: what the error of cmd.Run leads to
AfterRun(runErr) == IF runErr # NoErr THEN "return" ELSE "read"

\* variant: the temp file is left where it is
RemoveTemp_Not(file) == file

\* os.Remove(tmpPath), src/cli/editor_test.go:158 and 162: the temp file is
\* removed if it is there; the error of os.Remove is dropped
RemoveTemp(file) == NoFile

EdIdle ==
    [pc |-> "idle", initial |-> <<>>, pattern |-> <<>>, runErr |-> NoErr,
     started |-> FALSE, left |-> NoFile, reads |-> 0,
     result |-> <<>>, err |-> NoErr]

\* src/cli/editor_test.go:144-175: the temp file is created, made private,
\* filled with the initial content and closed; a failure returns, the file
\* removed
EditorCreate ==
    /\ ed.pc = "idle"
    /\ \E initial \in Texts, extension \in Extensions,
          fail \in {"ok", "create", "chmod", "write", "close"} :
          LET called == [EdIdle EXCEPT !.initial = initial,
                                       !.pattern = TempPattern(extension)]
              failed(head, err) == [called EXCEPT !.pc = "done",
                                                  !.err = ErrorfW(head, err)]
          IN  /\ fail = "write" => initial # <<>>
              /\ ed' = CASE fail = "create" -> failed("create temp file: ", ErrDiskFull)
                         [] fail = "chmod" ->
                              failed("set temp file permissions: ", ErrEACCES)
                         [] fail = "write" ->
                              failed("write initial content: ", ErrDiskFull)
                         [] fail = "close" -> failed("close temp file: ", ErrDiskFull)
                         [] OTHER -> [called EXCEPT !.pc = "run"]
              /\ tmp' = CASE fail = "create" -> NoFile
                          [] fail \in {"chmod", "write"} -> RemoveTemp(File(<<>>))
                          [] fail = "close" -> RemoveTemp(File(initial))
                          [] OTHER -> File(initial)
    /\ UNCHANGED notEd

\* src/cli/editor_test.go:177-185: the editor is run on the temp file
EditorRun ==
    /\ ed.pc = "run"
    /\ \E started \in BOOLEAN, edit \in Edits, status \in {0, 1} :
          LET runErr == IF ~started THEN ErrNotFound
                        ELSE IF status # 0 THEN ErrExitStatus
                        ELSE NoErr
              left == IF started THEN Edited(tmp, edit) ELSE tmp
              ran == [ed EXCEPT !.started = started, !.runErr = runErr,
                                !.left = left]
          IN  /\ ~started => edit.kind = "keep" /\ status = 1
              /\ IF AfterRun(runErr) = "return"
                 THEN /\ ed' = [ran EXCEPT !.pc = "done",
                                           !.err = ErrorfW("run editor: ", runErr)]
                      /\ tmp' = RemoveTemp(left)
                 ELSE /\ ed' = [ran EXCEPT !.pc = "read"]
                      /\ tmp' = left
    /\ UNCHANGED notEd

\* src/cli/editor_test.go:187-196: the file is read, its trailing newlines
\* are cut and the rest is returned, the file removed
EditorRead ==
    /\ ed.pc = "read"
    /\ \E fail \in {"ok", "read"} :
          LET r == ReadFile([p \in {<<>>} |-> tmp], <<>>, fail)
          IN  ed' = IF r.err # NoErr
                    THEN [ed EXCEPT !.pc = "done", !.reads = @ + 1,
                                    !.err = ErrorfW("read edited content: ", r.err)]
                    ELSE [ed EXCEPT !.pc = "done", !.reads = @ + 1,
                                    !.result = TrimRight(r.content)]
    /\ tmp' = RemoveTemp(tmp)
    /\ UNCHANGED notEd

(***************************************************************************)
(* The spinner, src/cli/spinner.go:12-126.  StartWithContext starts an     *)
(* animation goroutine; the goroutine reads the fields done and ctx of the *)
(* Spinner without the mutex each time round its loop, so once a later     *)
(* StartWithContext has assigned them it may see either its own channel    *)
(* and context or the new ones.  Stop signals under the mutex and clears   *)
(* the line after releasing it, without waiting for the goroutine.         *)
(***************************************************************************)
Goroutines == 1..MaxStarts

\* WithFrames, src/cli/spinner.go:46-49
Frames == <<"f1", "f2", "f3">>

SpinnerMessages == {"Loading...", "Still loading..."}

\* the contexts StartWithContext is given: context.Background(), or one
\* that its owner can cancel
ParentContexts == {"background", "user"}

\* NewSpinner, src/cli/spinner.go:35-43: done is channel 0, no context yet
NewSpinner(message) ==
    [running |-> FALSE, done |-> 0, ctx |-> 0, message |-> message, started |-> 0]

NoGoroutine == [pc |-> "none", i |-> 0, parent |-> "background"]

NoOutput == [kind |-> "none", by |-> 0, frame |-> "", message |-> ""]

\* fmt.Fprintf(s.writer, "\r%s %s", frame, msg)
FrameOutput(g, frame, message) ==
    [kind |-> "frame", by |-> g, frame |-> frame, message |-> message]

\* fmt.Fprintf(s.writer, "\r\033[K")
ClearOutput == [kind |-> "clear", by |-> 0, frame |-> "", message |-> ""]

\* <-c.Done() is ready: the context made by context.WithCancel(parent) is
\* cancelled by its cancel function or with its parent
CtxDone(c) ==
    \/ c \in chans.cancelled
    \/ c \in Goroutines /\ gor[c].parent = "user" /\ chans.user

\* variant: the loop has no case for the context
SelectReturns_DoneOnly(d, c) == d \in chans.closed

\* src/cli/spinner.go:85-89: one of the two receive cases of the select is
\* ready, so the default case is not taken
SelectReturns(d, c) == d \in chans.closed \/ CtxDone(c)

\* StartWithContext, src/cli/spinner.go:71-101
StartWithContext ==
    /\ caller.pc = "idle"
    /\ ~sp.running
    /\ sp.started < MaxStarts
    /\ \E parent \in ParentContexts :
          LET g == sp.started + 1
          IN  /\ sp' = [sp EXCEPT !.running = TRUE, !.done = g, !.ctx = g,
                                  !.started = g]
              /\ gor' = [gor EXCEPT ![g] = [pc |-> "select", i |-> 0,
                                             parent |-> parent]]
    /\ caller' = [caller EXCEPT !.stopped = FALSE, !.last = "Start"]
    /\ UNCHANGED <<chans, line>>
    /\ UNCHANGED notSpinner

\* the owner of the context given to StartWithContext cancels it
CancelContext ==
    /\ ~chans.user
    /\ chans' = [chans EXCEPT !.user = TRUE]
    /\ UNCHANGED <<sp, gor, line, caller>>
    /\ UNCHANGED notSpinner

\* Update, src/cli/spinner.go:104-108
Update ==
    /\ caller.pc = "idle"
    /\ \E message \in SpinnerMessages :
          /\ message # sp.message
          /\ sp' = [sp EXCEPT !.message = message]
    /\ caller' = [caller EXCEPT !.last = "Update"]
    /\ UNCHANGED <<chans, gor, line>>
    /\ UNCHANGED notSpinner

\* close(d); cancel() for the context c.  Closing a channel that is closed
\* already panics: such a channel is recorded in reclosed.
CloseAndCancel(ch, d, c) ==
    [ch EXCEPT !.reclosed = @ \cup ({d} \cap ch.closed),
               !.closed = @ \cup {d},
               !.cancelled = @ \cup {c}]

\* variant: Stop does not look at running
StopLocked_Unguarded(s, ch) ==
    [sp |-> [s EXCEPT !.running = FALSE],
     chans |-> CloseAndCancel(ch, s.done, s.ctx),
     signalled |-> TRUE]

\* Stop, src/cli/spinner.go:111-122, what it does while it holds the mutex:
\* nothing when the spinner is not running; else running is reset, done is
\* closed and the context cancelled
StopLocked(s, ch) ==
    IF ~s.running
    THEN [sp |-> s, chans |-> ch, signalled |-> FALSE]
    ELSE [sp |-> [s EXCEPT !.running = FALSE],
          chans |-> CloseAndCancel(ch, s.done, s.ctx),
          signalled |-> TRUE]

\* Stop, src/cli/spinner.go:111-122: a call of Stop up to the release of the
\* mutex.  On a spinner that is not running it returns here; such a call
\* may also come from another goroutine while an earlier Stop is about to
\* clear the line.
StopSignal ==
    /\ caller.pc = "idle" \/ ~sp.running
    /\ LET r == StopLocked(sp, chans)
       IN  /\ sp' = r.sp
           /\ chans' = r.chans
           /\ caller' = IF r.signalled
                            THEN [caller EXCEPT !.pc = "clear",
                                                !.stopCalled = TRUE,
                                                !.last = "Stop"]
                            ELSE [caller EXCEPT !.last = "Stop: not running"]
    /\ UNCHANGED <<gor, line>>
    /\ UNCHANGED notSpinner

\* Stop, src/cli/spinner.go:124-126: the line is cleared and Stop returns
StopClear ==
    /\ caller.pc = "clear"
    /\ line' = ClearOutput
    /\ caller' = [caller EXCEPT !.pc = "idle", !.stopped = TRUE]
    /\ UNCHANGED <<sp, chans, gor>>
    /\ UNCHANGED notSpinner

\* src/cli/spinner.go:84-90: the select of the animation goroutine g, on the
\* values of s.done and s.ctx that it reads
GoSelect(g) ==
    /\ gor[g].pc = "select"
    /\ \E d \in {g, sp.done}, c \in {g, sp.ctx} :
          gor' = [gor EXCEPT ![g].pc = IF SelectReturns(d, c) THEN "exited"
                                       ELSE "default"]
    /\ UNCHANGED <<sp, chans, line, caller>>
    /\ UNCHANGED notSpinner

\* src/cli/spinner.go:91-98: the default case: the message is read under the
\* mutex, the frame written, and the goroutine sleeps before the next round
GoWrite(g) ==
    /\ gor[g].pc = "default"
    /\ line' = FrameOutput(g, Frames[gor[g].i + 1], sp.message)
    /\ gor' = [gor EXCEPT ![g].pc = "select",
                          ![g].i = (gor[g].i + 1) % Len(Frames)]
    /\ UNCHANGED <<sp, chans, caller>>
    /\ UNCHANGED notSpinner

(***************************************************************************)
(* The scaffolding, src/unnamed/part_005:14-65 and part_003:9-41.  Apply   *)
(* walks the embedded templates under root in the order of fs.WalkDir      *)
(* and, for each file, renders it and writes the output under targetDir.   *)
(* Paths and texts are sequences of characters.  A template is the         *)
(* sequence of its nodes: text, {{.Field}}, {{if .Field}}text{{end}}, or   *)
(* an action that is left open, which does not parse.                      *)
(***************************************************************************)
Root == <<"t">>
TargetDir == <<"o">>

TmplSuffix == <<".", "t", "m", "p", "l">>

\* the files that the embedded tree can hold, relative to root
TemplateFiles ==
    { <<"a">>,
      <<"a">> \o TmplSuffix,
      <<"s">> \o TmplSuffix,
      <<"s", "/", "b">> \o TmplSuffix }

TextNode(text) == [node |-> "text", field |-> "", text |-> text]
FieldNode(field) == [node |-> "field", field |-> field, text |-> <<>>]
IfNode(field, text) == [node |-> "if", field |-> field, text |-> text]
OpenNode == [node |-> "open", field |-> "", text |-> <<>>]

TemplateContents ==
    { <<FieldNode("Name"), TextNode(<<"\n">>)>>,
      <<IfNode("UseSQLite", <<"x">>), TextNode(<<" ", "\n">>)>>,
      <<>>,
      <<OpenNode>>,
      <<FieldNode("Missing")>> }

\* the embedded trees: each file is absent or holds a template
Absent == <<[node |-> "absent", field |-> "", text |-> <<>>]>>
Trees == [TemplateFiles -> TemplateContents \cup {Absent}]

\* TemplateData, src/unnamed/part_003:13-19
TemplateData(name, useSQLite) == [Name |-> name, UseSQLite |-> useSQLite]
Datas == {TemplateData(<<"p">>, b) : b \in BOOLEAN}

ErrParse == NewError("template: unclosed action")
ErrExec == NewError("template: can't evaluate field")
ErrIsDir == NewError("is a directory")
ErrNotDir == NewError("not a directory")

\* the order of bytes, with the separator first: comparing paths by it is
\* comparing them name by name, which is the order fs.WalkDir visits them in
Alphabet == <<"/", ".", "a", "b", "l", "m", "o", "p", "s", "t">>
Rank(ch) == CHOOSE i \in 1..Len(Alphabet) : Alphabet[i] = ch

RECURSIVE PathLess(_, _)
PathLess(p, q) ==
    IF q = <<>> THEN FALSE
    ELSE IF p = <<>> THEN TRUE
    ELSE IF Head(p) # Head(q) THEN Rank(Head(p)) < Rank(Head(q))
    ELSE PathLess(Tail(p), Tail(q))

\* filepath.Join(dir, p)
Join(dir, p) == IF p = <<>> THEN dir ELSE dir \o <<"/">> \o p

\* filepath.Rel(root, path) for a path under root
Rel(root, path) ==
    IF path = root THEN <<".">> ELSE SubSeq(path, Len(root) + 2, Len(path))

HasSuffix(s, suffix) ==
    /\ Len(s) >= Len(suffix)
    /\ SubSeq(s, Len(s) - Len(suffix) + 1, Len(s)) = suffix

\* strings.TrimSuffix(s, suffix)
TrimSuffix(s, suffix) ==
    IF HasSuffix(s, suffix) THEN SubSeq(s, 1, Len(s) - Len(suffix)) ELSE s

\* filepath.Dir(path)
RECURSIVE Dir(_)
Dir(path) ==
    IF path = <<>> THEN <<".">>
    ELSE IF path[Len(path)] = "/" THEN SubSeq(path, 1, Len(path) - 1)
    ELSE Dir(SubSeq(path, 1, Len(path) - 1))

\* the directories above a path, the nearest first, up to "."
RECURSIVE Ancestors(_)
Ancestors(path) ==
    IF Dir(path) = <<".">> THEN {} ELSE {Dir(path)} \cup Ancestors(Dir(path))

IsSpace(ch) == ch \in {" ", "\n", "\t", "\r"}

\* variant: the output is compared with "" as it is
TrimSpace_None(s) == s

\* strings.TrimSpace(s)
RECURSIVE TrimSpace(_)
TrimSpace(s) ==
    IF s # <<>> /\ IsSpace(Head(s)) THEN TrimSpace(Tail(s))
    ELSE IF s # <<>> /\ IsSpace(s[Len(s)]) THEN TrimSpace(SubSeq(s, 1, Len(s) - 1))
    ELSE s

\* template.New(name).Parse(content)
ParseTemplate(content) ==
    IF \E i \in 1..Len(content) : content[i].node = "open" THEN ErrParse
    ELSE NoErr

\* tmpl.Execute(&buf, data): what is in buf, and the error
RECURSIVE Execute(_, _)
Execute(content, data) ==
    IF content = <<>> THEN [out |-> <<>>, err |-> NoErr]
    ELSE LET n == Head(content)
             rest == Execute(Tail(content), data)
             known == n.field \in DOMAIN data
             out == CASE n.node = "text" -> n.text
                      [] n.node = "field" -> data[n.field]
                      [] n.node = "if" -> IF data[n.field] THEN n.text ELSE <<>>
         IN  IF n.node \in {"field", "if"} /\ ~known
             THEN [out |-> <<>>, err |-> ErrExec]
             ELSE [out |-> out \o rest.out, err |-> rest.err]

\* the directories of an embedded tree, root among them
TreeFiles(tree) == {Join(Root, f) : f \in {g \in TemplateFiles : tree[g] # Absent}}
TreeDirs(tree) == UNION {Ancestors(p) : p \in TreeFiles(tree)}

RECURSIVE SortPaths(_)
SortPaths(ps) ==
    IF ps = {} THEN <<>>
    ELSE LET first == CHOOSE p \in ps : \A q \in ps \ {p} : PathLess(p, q)
         IN  <<first>> \o SortPaths(ps \ {first})

\* fs.WalkDir(efs, root, fn): the entries in the order fn is called on them;
\* when root does not exist fn is called once, on root, with the error
WalkOrder(tree) ==
    IF TreeFiles(tree) = {} THEN <<Root>>
    ELSE SortPaths(TreeFiles(tree) \cup TreeDirs(tree))

\* what is under targetDir: the directories and the files
NoTarget == [dirs |-> {}, files |-> [d \in {} |-> NoFile]]

IsFile(tgt, path) == path \in DOMAIN tgt.files /\ tgt.files[path].exists

\* os.MkdirAll(dir, 0755)
MkdirAll(tgt, dir, fail) ==
    IF fail = "mkdir" THEN [target |-> tgt, err |-> ErrEACCES]
    ELSE IF \E d \in {dir} \cup Ancestors(dir) : IsFile(tgt, d)
    THEN [target |-> tgt, err |-> ErrNotDir]
    ELSE [target |-> [tgt EXCEPT !.dirs = @ \cup {dir} \cup Ancestors(dir)],
          err |-> NoErr]

\* os.WriteFile(dest, content, 0644) under targetDir
WriteDest(tgt, dest, content, fail) ==
    IF dest \in tgt.dirs THEN [target |-> tgt, err |-> ErrIsDir]
    ELSE LET files == [p \in DOMAIN tgt.files \cup {dest} |->
                           IF p \in DOMAIN tgt.files THEN tgt.files[p] ELSE NoFile]
             w == WriteFile(files, dest, content, fail)
         IN  [target |-> [tgt EXCEPT !.files =
                             [p \in {q \in DOMAIN w.fs : w.fs[q].exists} |-> w.fs[p]]],
              err |-> w.err]

\* src/unnamed/part_005:25-31: where the output of a template goes
Dest(root, targetDir, path) ==
    Join(targetDir, TrimSuffix(Rel(root, path), TmplSuffix))

\* the function that Apply gives to fs.WalkDir, src/unnamed/part_005:17-64,
\* on one entry: what is under targetDir afterwards, and the error
Visit(tgt, tree, root, targetDir, data, path, fail) ==
    LET dest == Dest(root, targetDir, path)
        outPath == TrimSuffix(Rel(root, path), TmplSuffix)
        content == tree[Rel(root, path)]
        parsed == ParseTemplate(content)
        buf == Execute(content, data)
        made == MkdirAll(tgt, Dir(dest), fail)
        written == WriteDest(made.target, dest, buf.out, fail)
    IN  IF TreeFiles(tree) = {} THEN [target |-> tgt, err |-> ErrENOENT]
        ELSE IF path \in TreeDirs(tree) THEN [target |-> tgt, err |-> NoErr]
        ELSE IF fail = "read"
        THEN [target |-> tgt, err |-> ErrorfW("read template: ", ErrEACCES)]
        ELSE IF parsed # NoErr
        THEN [target |-> tgt, err |-> ErrorfW("parse template: ", parsed)]
        ELSE IF buf.err # NoErr
        THEN [target |-> tgt, err |-> ErrorfW("execute template: ", buf.err)]
        ELSE IF TrimSpace(buf.out) = <<>> THEN [target |-> tgt, err |-> NoErr]
        ELSE IF made.err # NoErr
        THEN [target |-> made.target,
              err |-> ErrorfW("create directory: ", made.err)]
        ELSE IF written.err # NoErr
        THEN [target |-> written.target,
              err |-> ErrorfW("write file: ", written.err)]
        ELSE [target |-> written.target, err |-> NoErr]

ApplyIdle ==
    [pc |-> "idle", tree |-> [f \in TemplateFiles |-> Absent],
     data |-> TemplateData(<<>>, FALSE), rest |-> <<>>, err |-> NoErr]

\* the calls that can fail on the way: os.MkdirAll, and os.WriteFile when it
\* opens or when it writes; efs.ReadFile of a file that the walk has found
\* in the embedded tree does not fail
VisitFailures == {"none", "mkdir", "open", "write"}

\* Apply is called on a tree of templates, with a target that does not exist
ApplyCall ==
    /\ ap.pc = "idle"
    /\ \E tree \in Trees, data \in Datas :
          ap' = [pc |-> "walk", tree |-> tree, data |-> data,
                 rest |-> WalkOrder(tree), err |-> NoErr]
    /\ tdir' = NoTarget
    /\ UNCHANGED notApply

\* fs.WalkDir calls the function on the next entry; it stops at the first
\* error, which Apply returns, and Apply returns nil after the last entry
ApplyVisit ==
    /\ ap.pc = "walk"
    /\ \E fail \in VisitFailures :
          LET v == Visit(tdir, ap.tree, Root, TargetDir, ap.data, Head(ap.rest), fail)
          IN  /\ tdir' = v.target
              /\ ap' = [ap EXCEPT !.rest = Tail(ap.rest),
                                  !.err = v.err,
                                  !.pc = IF v.err # NoErr \/ Tail(ap.rest) = <<>>
                                         THEN "done" ELSE "walk"]
    /\ UNCHANGED notApply

(***************************************************************************)
(* The migrations, src/migrate.go:12-206.  Every operation passes its      *)
(* MigrateConfig to setupMigration, which sets the package-level settings  *)
(* of goose (table name, dialect, base file system) for the fields that    *)
(* are not empty, and then calls goose, which works with the settings as   *)
(* they are then.                                                          *)
(***************************************************************************)
\* MigrateConfig, src/migrate.go:13-36
MigrateConfig(dir, table, dialect, baseFS) ==
    [Dir |-> dir, Table |-> table, Dialect |-> dialect, FS |-> baseFS]

MigrateConfigs ==
    {MigrateConfig(dir, table, dialect, baseFS) :
        dir \in {"", "db/migrations"},
        table \in {"", "schema_version"},
        dialect \in {"", "postgres", "sqlite3", "oracle9"},
        baseFS \in {"nil", "embedded"}}

\* the dialects that goose.SetDialect knows among these
GooseDialects == {"postgres", "sqlite3"}

ErrUnknownDialect == NewError("unknown dialect")
ErrGoose == NewError("goose: failed")

\* the settings of the goose package when the program starts
GooseDefaults == [tableName |-> "goose_db_version", dialect |-> "postgres", baseFS |-> "os"]

\* setupMigration, src/migrate.go:190-206: the config with its Dir set, the
\* settings of goose afterwards, and the error
setupMigration(cfg, g) ==
    LET dir == IF cfg.Dir = "" THEN "migrations" ELSE cfg.Dir
        g1 == IF cfg.Table # "" THEN [g EXCEPT !.tableName = cfg.Table] ELSE g
        bad == cfg.Dialect # "" /\ cfg.Dialect \notin GooseDialects
        g2 == IF cfg.Dialect # "" /\ ~bad THEN [g1 EXCEPT !.dialect = cfg.Dialect] ELSE g1
        g3 == IF cfg.FS # "nil" THEN [g2 EXCEPT !.baseFS = cfg.FS] ELSE g2
    IN  IF bad
        THEN [cfg |-> [cfg EXCEPT !.Dir = dir], goose |-> g1,
              err |-> ErrorfW("invalid dialect: ", ErrUnknownDialect)]
        ELSE [cfg |-> [cfg EXCEPT !.Dir = dir], goose |-> g3, err |-> NoErr]

\* what a call of goose works with: the directory it is given (none for
\* goose.GetDBVersionContext) and the settings of the package
GooseUses(dir, g) ==
    [called |-> TRUE, dir |-> dir, table |-> g.tableName, dialect |-> g.dialect,
     baseFS |-> g.baseFS]

NotCalled == [called |-> FALSE, dir |-> "", table |-> "", dialect |-> "", baseFS |-> ""]

NoMigration == [op |-> "", cfg |-> MigrateConfig("", "", "", "nil"), used |-> NotCalled,
                err |-> NoErr]

\* src/migrate.go:66-139: an operation on a config: setupMigration, then the
\* call of goose, whose error is wrapped
Migration(op, head, cfg, takesDir, fail, g) ==
    LET set == setupMigration(cfg, g)
    IN  [goose |-> set.goose,
         mg |-> IF set.err # NoErr
                THEN [op |-> op, cfg |-> cfg, used |-> NotCalled, err |-> set.err]
                ELSE [op |-> op, cfg |-> cfg,
                      used |-> GooseUses(IF takesDir THEN set.cfg.Dir ELSE "", set.goose),
                      err |-> IF fail THEN ErrorfW(head, ErrGoose) ELSE NoErr]]

\* Migrate, src/migrate.go:66-76
Migrate(cfg) ==
    /\ \E fail \in BOOLEAN :
          LET m == Migration("Migrate", "migration failed: ", cfg, TRUE, fail, goose)
          IN  goose' = m.goose /\ mg' = m.mg
    /\ UNCHANGED notMig

\* MigrateDown, src/migrate.go:84-94
MigrateDown(cfg) ==
    /\ \E fail \in BOOLEAN :
          LET m == Migration("MigrateDown", "rollback failed: ", cfg, TRUE, fail, goose)
          IN  goose' = m.goose /\ mg' = m.mg
    /\ UNCHANGED notMig

\* MigrateDownTo, src/migrate.go:97-107
MigrateDownTo(cfg) ==
    /\ \E fail \in BOOLEAN :
          LET m == Migration("MigrateDownTo", "rollback to version failed: ", cfg,
                             TRUE, fail, goose)
          IN  goose' = m.goose /\ mg' = m.mg
    /\ UNCHANGED notMig

\* MigrateStatus, src/migrate.go:115-125
MigrateStatus(cfg) ==
    /\ \E fail \in BOOLEAN :
          LET m == Migration("MigrateStatus", "status failed: ", cfg, TRUE, fail, goose)
          IN  goose' = m.goose /\ mg' = m.mg
    /\ UNCHANGED notMig

\* MigrateVersion, src/migrate.go:128-139
MigrateVersion(cfg) ==
    /\ \E fail \in BOOLEAN :
          LET m == Migration("MigrateVersion", "failed to get version: ", cfg,
                             FALSE, fail, goose)
          IN  goose' = m.goose /\ mg' = m.mg
    /\ UNCHANGED notMig

\* PostgresMigrate, src/migrate.go:169-174: Migrate on a config with the
\* directory and the dialect only
PostgresMigrate(dir) ==
    /\ \E fail \in BOOLEAN :
          LET m == Migration("Migrate", "migration failed: ",
                             MigrateConfig(dir, "", "postgres", "nil"), TRUE, fail, goose)
          IN  goose' = m.goose /\ mg' = m.mg
    /\ UNCHANGED notMig

\* SQLiteMigrate, src/migrate.go:182-187: Migrate on a config with the
\* directory and the dialect only
SQLiteMigrate(dir) ==
    /\ \E fail \in BOOLEAN :
          LET m == Migration("Migrate", "migration failed: ",
                             MigrateConfig(dir, "", "sqlite3", "nil"), TRUE, fail, goose)
          IN  goose' = m.goose /\ mg' = m.mg
    /\ UNCHANGED notMig

(***************************************************************************)
(* The Open functions, src/cache.go:92-144 (Redis), src/cache.go:390-443   *)
(* (postgres) and src/state_test.go:269-290 (sqlite).  Each makes a        *)
(* client, pool or db and then pings it (sqlite also applies its pragmas); *)
(* a step that fails ends the call.  A handle is a number; handles records *)
(* of every handle made whether it is open and whether a call returned it. *)
(***************************************************************************)
NoHandle == 0

ErrBadURL == NewError("invalid URL scheme")
ErrPool == NewError("failed to create pool")
ErrDriver == NewError("sql: unknown driver")
ErrLocked == NewError("database is locked")

\* CacheConfig, src/cache.go:30-50: the fields that OpenCacheWithConfig
\* branches on or keeps
CacheConfig(url, keyPrefix) == [URL |-> url, KeyPrefix |-> keyPrefix]

CacheConfigs ==
    {CacheConfig(url, keyPrefix) :
        url \in {"", "redis://localhost:6379/0"}, keyPrefix \in {"", "myapp:"}}

\* redis.NewClient, pgxpool.NewWithConfig, pgxpool.New, sql.Open: a new
\* handle, open
NewHandle(hs) == Append(hs, [state |-> "open", returned |-> FALSE])

\* client.Close(), pool.Close(), db.Close()
CloseHandle(hs, h) == [hs EXCEPT ![h].state = "closed"]

\* return nil, err
ReturnErr(hs, made, err) ==
    [handles |-> hs, made |-> made, handle |-> NoHandle, prefix |-> "", err |-> err]

\* return h, nil
ReturnHandle(hs, h, keyPrefix) ==
    [handles |-> [hs EXCEPT ![h].returned = TRUE], made |-> h, handle |-> h,
     prefix |-> keyPrefix, err |-> NoErr]

\* variant: the client is not closed when the ping fails
openCacheURL_NoClose(hs, fail) ==
    IF fail = "parse"
    THEN ReturnErr(hs, NoHandle, ErrorfW("invalid redis URL: ", ErrBadURL))
    ELSE LET client == Len(hs) + 1
             made == NewHandle(hs)
         IN  IF fail = "ping"
             THEN ReturnErr(made, client,
                            ErrorfW("failed to ping redis: ", ErrConn))
             ELSE ReturnHandle(made, client, "")

\* OpenCacheURL, src/cache.go:92-106
openCacheURL(hs, fail) ==
    IF fail = "parse"
    THEN ReturnErr(hs, NoHandle, ErrorfW("invalid redis URL: ", ErrBadURL))
    ELSE LET client == Len(hs) + 1
             made == NewHandle(hs)
         IN  IF fail = "ping"
             THEN ReturnErr(CloseHandle(made, client), client,
                            ErrorfW("failed to ping redis: ", ErrConn))
             ELSE ReturnHandle(made, client, "")

\* OpenCacheWithConfig, src/cache.go:116-144
openCacheWithConfig(hs, cfg, fail) ==
    IF cfg.URL # ""
    THEN LET r == openCacheURL(hs, fail)
         IN  IF r.err # NoErr
             THEN ReturnErr(r.handles, r.made, r.err)
             ELSE [r EXCEPT !.prefix = cfg.KeyPrefix]
    ELSE LET client == Len(hs) + 1
             made == NewHandle(hs)
         IN  IF fail = "ping"
             THEN ReturnErr(CloseHandle(made, client), client,
                            ErrorfW("failed to ping redis: ", ErrConn))
             ELSE ReturnHandle(made, client, cfg.KeyPrefix)

\* postgres.OpenWithConfig, src/cache.go:390-424
postgresOpenWithConfig(hs, fail) ==
    IF fail = "parse"
    THEN ReturnErr(hs, NoHandle, ErrorfW("invalid postgres URL: ", ErrBadURL))
    ELSE IF fail = "create"
    THEN ReturnErr(hs, NoHandle, ErrorfW("create postgres pool: ", ErrPool))
    ELSE LET pool == Len(hs) + 1
             made == NewHandle(hs)
         IN  IF fail = "ping"
             THEN ReturnErr(CloseHandle(made, pool), pool,
                            ErrorfW("ping postgres: ", ErrConn))
             ELSE ReturnHandle(made, pool, "")

\* postgres.FromEnv, src/cache.go:431-443
postgresFromEnv(hs, fail) ==
    IF fail = "create"
    THEN ReturnErr(hs, NoHandle,
                   ErrorfW("create postgres pool from env: ", ErrPool))
    ELSE LET pool == Len(hs) + 1
             made == NewHandle(hs)
         IN  IF fail = "ping"
             THEN ReturnErr(CloseHandle(made, pool), pool,
                            ErrorfW("ping postgres: ", ErrConn))
             ELSE ReturnHandle(made, pool, "")

\* applyPragmas, src/state_test.go:311-319
applyPragmas(fail) ==
    IF fail = "pragma"
    THEN ErrorfW("set pragma \"PRAGMA cache_size=-2000\": ", ErrLocked)
    ELSE NoErr

\* sqlite.OpenWithConfig, src/state_test.go:269-290
sqliteOpenWithConfig(hs, fail) ==
    IF fail = "create"
    THEN ReturnErr(hs, NoHandle, ErrorfW("open sqlite: ", ErrDriver))
    ELSE LET sqldb == Len(hs) + 1
             made == NewHandle(hs)
         IN  IF applyPragmas(fail) # NoErr
             THEN ReturnErr(CloseHandle(made, sqldb), sqldb, applyPragmas(fail))
             ELSE IF fail = "ping"
             THEN ReturnErr(CloseHandle(made, sqldb), sqldb,
                            ErrorfW("ping sqlite: ", ErrConn))
             ELSE ReturnHandle(made, sqldb, "")

NotOpened == [fn |-> "none", fail |-> "none", made |-> NoHandle,
              handle |-> NoHandle, prefix |-> "", err |-> NoErr]

\* what a call has done and returned
OpenCall(fn, fail, r) ==
    [fn |-> fn, fail |-> fail, made |-> r.made, handle |-> r.handle,
     prefix |-> r.prefix, err |-> r.err]

\* a call can be made while fewer than MaxOpens handles have been made
OpensLeft == Len(handles) < MaxOpens

OpenCacheURL ==
    /\ OpensLeft
    /\ \E fail \in {"none", "parse", "ping"} :
          LET r == openCacheURL(handles, fail)
          IN  /\ handles' = r.handles
              /\ opn' = OpenCall("OpenCacheURL", fail, r)
    /\ UNCHANGED notOpen

OpenCacheWithConfig(cfg) ==
    /\ OpensLeft
    /\ \E fail \in IF cfg.URL # "" THEN {"none", "parse", "ping"}
                                    ELSE {"none", "ping"} :
          LET r == openCacheWithConfig(handles, cfg, fail)
          IN  /\ handles' = r.handles
              /\ opn' = OpenCall("OpenCacheWithConfig", fail, r)
    /\ UNCHANGED notOpen

PostgresOpenWithConfig ==
    /\ OpensLeft
    /\ \E fail \in {"none", "parse", "create", "ping"} :
          LET r == postgresOpenWithConfig(handles, fail)
          IN  /\ handles' = r.handles
              /\ opn' = OpenCall("postgres.OpenWithConfig", fail, r)
    /\ UNCHANGED notOpen

PostgresFromEnv ==
    /\ OpensLeft
    /\ \E fail \in {"none", "create", "ping"} :
          LET r == postgresFromEnv(handles, fail)
          IN  /\ handles' = r.handles
              /\ opn' = OpenCall("postgres.FromEnv", fail, r)
    /\ UNCHANGED notOpen

SQLiteOpenWithConfig ==
    /\ OpensLeft
    /\ \E fail \in {"none", "create", "pragma", "ping"} :
          LET r == sqliteOpenWithConfig(handles, fail)
          IN  /\ handles' = r.handles
              /\ opn' = OpenCall("sqlite.OpenWithConfig", fail, r)
    /\ UNCHANGED notOpen

\* the caller closes a handle that it was returned: cache.Close(),
\* pool.Close(), db.Close()
CallerCloses(h) ==
    /\ h \in 1..Len(handles)
    /\ handles[h].returned
    /\ handles[h].state = "open"
    /\ handles' = CloseHandle(handles, h)
    /\ UNCHANGED opn
    /\ UNCHANGED notOpen

(***************************************************************************)
(* The specifications.  SpecTx runs both transaction helpers on the same   *)
(* scenario, each on its own store; when both have ended, the next round   *)
(* runs them again on the data the earlier rounds left.  SpecCache runs    *)
(* the callers of Cache.Remember concurrently on one Redis.                *)
(***************************************************************************)
TxStart(sc) ==
    /\ scn = sc
    /\ pc = [s \in Stores |-> "start"]
    /\ txw = [s \in Stores |-> {}]
    /\ txState = [s \in Stores |-> "none"]
    /\ calls = [s \in Stores |-> <<>>]
    /\ fnErr = [s \in Stores |-> NoErr]
    /\ panicking = [s \in Stores |-> NoPanic]
    /\ ret = [s \in Stores |-> NoOutcome]

\* a Cache opened with the given KeyPrefix on an empty Redis
CacheStart(p) ==
    /\ prefix = p
    /\ store = [sk \in StoreKeys |-> NoEntry]
    /\ remember = [c \in Callers |-> Idle]
    /\ ncalls = [c \in Callers |-> 0]
    /\ prevCall = [k \in Keys |-> NoCall]
    /\ touched = [k \in Keys |-> FALSE]
    /\ deletedSince = [k \in Keys |-> "no"]

\* no call of the other methods has been made
OpsStart ==
    /\ rj = RJIdle
    /\ lastOp = NoOp
    /\ won = [sk \in StoreKeys |-> 0]
    /\ nops = 0

\* no state file has been written
StateStart ==
    /\ fs = [p \in Paths |-> NoFile]
    /\ saved = [p \in Paths |-> NoSave]
    /\ io = NoIO
    /\ nio = 0

\* no logger has been made and there is no log file
LogStart ==
    /\ logFiles = [p \in LogPaths |-> NoFile]
    /\ loggers = [l \in LoggerIds |-> NoLogger]
    /\ logged = [p \in LogPaths |-> <<>>]
    /\ nlog = 0

\* CaptureInputWithEditor has not been called
EdStart ==
    /\ ed = EdIdle
    /\ tmp = NoFile

\* a Spinner that NewSpinner has made
SpinnerStart ==
    /\ sp = NewSpinner("Loading...")
    /\ chans = [closed |-> {}, cancelled |-> {}, user |-> FALSE, reclosed |-> {}]
    /\ gor = [g \in Goroutines |-> NoGoroutine]
    /\ line = NoOutput
    /\ caller = [pc |-> "idle", stopCalled |-> FALSE, stopped |-> FALSE,
                 last |-> "none"]

\* Apply has not been called
ApplyStart ==
    /\ ap = ApplyIdle
    /\ tdir = NoTarget

\* no migration operation has been called
MigStart ==
    /\ goose = GooseDefaults
    /\ mg = NoMigration

\* no Open function has been called
OpenStart ==
    /\ handles = <<>>
    /\ opn = NotOpened

InitTx ==
    /\ round = 1
    /\ db = [s \in Stores |-> {}]
    /\ db0 = db
    /\ \E sc \in Scenarios : TxStart(sc)
    /\ CacheStart(<<>>)
    /\ OpsStart
    /\ StateStart
    /\ LogStart
    /\ EdStart
    /\ SpinnerStart
    /\ ApplyStart
    /\ MigStart
    /\ OpenStart

TxNextRound ==
    /\ \A s \in Stores : pc[s] = "done"
    /\ round < MaxTxRounds
    /\ round' = round + 1
    /\ scn' \in Scenarios
    /\ pc' = [s \in Stores |-> "start"]
    /\ txw' = [s \in Stores |-> {}]
    /\ txState' = [s \in Stores |-> "none"]
    /\ calls' = [s \in Stores |-> <<>>]
    /\ fnErr' = [s \in Stores |-> NoErr]
    /\ panicking' = [s \in Stores |-> NoPanic]
    /\ ret' = [s \in Stores |-> NoOutcome]
    /\ db0' = db
    /\ UNCHANGED db
    /\ UNCHANGED notTx

NextTx ==
    \/ PgBegin \/ PgFn \/ PgRollback \/ PgCommit \/ PgDeferred
    \/ SqBegin \/ SqFn \/ SqRollback \/ SqCommit \/ SqDeferred
    \/ TxNextRound

SpecTx == InitTx /\ [][NextTx]_vars

InitCache ==
    /\ round = 1
    /\ db = [s \in Stores |-> {}]
    /\ db0 = db
    /\ TxStart(CHOOSE sc \in Scenarios : TRUE)
    /\ \E p \in Prefixes : CacheStart(p)
    /\ OpsStart
    /\ StateStart
    /\ LogStart
    /\ EdStart
    /\ SpinnerStart
    /\ ApplyStart
    /\ MigStart
    /\ OpenStart

NextCache ==
    \/ \E c \in Callers : RememberGet(c)
    \/ \E c \in Callers : RememberCompute(c)
    \/ \E c \in Callers : RememberSet(c)
    \/ \E k \in Keys : CacheDelete(k)
    \/ \E k \in Keys : RedisExpire(k)

SpecCache == InitCache /\ [][NextCache]_vars

\* SpecOps makes calls of every key-taking method, one after the other, on
\* one Redis; the steps of a call of RememberJSON and of Remember come
\* between the other calls.
InitOps == InitCache

NextOps ==
    \/ \E k \in Keys : Get(k)
    \/ \E k \in Keys : Set(k)
    \/ \E k \in Keys : GetJSON(k)
    \/ \E k \in Keys : SetJSON(k)
    \/ \E ks \in (SUBSET Keys) \ {{}} : Delete(ks)
    \/ \E k \in Keys : Exists(k)
    \/ \E k \in Keys : Expire(k)
    \/ \E k \in Keys : TTL(k)
    \/ \E k \in Keys : Incr(k)
    \/ \E k \in Keys : IncrBy(k)
    \/ \E k \in Keys : SetNX(k)
    \/ \E c \in {1} : RememberCalled(c)
    \/ \E c \in {1} : RememberCompute(c)
    \/ \E c \in {1} : RememberSet(c)
    \/ RememberJSONGet
    \/ RememberJSONCompute
    \/ RememberJSONSet
    \/ \E sk \in StoreKeys : EntryExpires(sk)

SpecOps == InitOps /\ [][NextOps]_vars

\* SpecState makes calls of SaveState and LoadState, one after the other.
InitState ==
    /\ round = 1
    /\ db = [s \in Stores |-> {}]
    /\ db0 = db
    /\ TxStart(CHOOSE sc \in Scenarios : TRUE)
    /\ CacheStart(<<>>)
    /\ OpsStart
    /\ StateStart
    /\ LogStart
    /\ EdStart
    /\ SpinnerStart
    /\ ApplyStart
    /\ MigStart
    /\ OpenStart

NextState ==
    \/ \E a \in AppNames, f \in Filenames : SaveState(a, f)
    \/ \E a \in AppNames, f \in Filenames : LoadState(a, f)

SpecState == InitState /\ [][NextState]_vars

\* SpecLog makes loggers, writes records with them and closes them, in any
\* order.
InitLog == InitState

NextLog ==
    \/ \E l \in LoggerIds, a \in AppNames : NewFileLogger(l, a)
    \/ \E l \in LoggerIds : LoggerLog(l)
    \/ \E l \in LoggerIds : LoggerCleanup(l)

SpecLog == InitLog /\ [][NextLog]_vars

\* SpecEditor makes one call of CaptureInputWithEditor.
InitEditor == InitState

NextEditor == EditorCreate \/ EditorRun \/ EditorRead

SpecEditor == InitEditor /\ [][NextEditor]_vars

\* SpecSpinner runs the caller of one Spinner, the owner of the context and
\* the animation goroutines concurrently.  FairSpecSpinner adds that an
\* animation goroutine that can take a step does so in the end: the Go
\* scheduler runs every runnable goroutine, time.Sleep returns, and the
\* mutex is held only for a few assignments.
InitSpinner == InitState

NextSpinner ==
    \/ StartWithContext
    \/ CancelContext
    \/ Update
    \/ StopSignal
    \/ StopClear
    \/ \E g \in Goroutines : GoSelect(g)
    \/ \E g \in Goroutines : GoWrite(g)

SpecSpinner == InitSpinner /\ [][NextSpinner]_vars

FairSpecSpinner ==
    /\ InitSpinner
    /\ [][NextSpinner]_vars
    /\ \A g \in Goroutines : WF_vars(GoSelect(g)) /\ WF_vars(GoWrite(g))

\* SpecApply makes one call of Apply, on any of the trees of templates.
InitApply == InitState

NextApply == ApplyCall \/ ApplyVisit

SpecApply == InitApply /\ [][NextApply]_vars

\* SpecMigrate makes calls of the migration operations, one after the other,
\* in one process.
InitMigrate == InitState

NextMigrate ==
    \/ \E cfg \in MigrateConfigs : Migrate(cfg)
    \/ \E cfg \in MigrateConfigs : MigrateDown(cfg)
    \/ \E cfg \in MigrateConfigs : MigrateDownTo(cfg)
    \/ \E cfg \in MigrateConfigs : MigrateStatus(cfg)
    \/ \E cfg \in MigrateConfigs : MigrateVersion(cfg)
    \/ \E dir \in {"", "db/migrations"} : PostgresMigrate(dir)
    \/ \E dir \in {"", "db/migrations"} : SQLiteMigrate(dir)

SpecMigrate == InitMigrate /\ [][NextMigrate]_vars

\* SpecOpen makes calls of the Open functions, one after the other, each
\* with any of its steps failing, and lets the caller close the handles it
\* was returned.
InitOpen == InitState

NextOpen ==
    \/ OpenCacheURL
    \/ \E cfg \in CacheConfigs : OpenCacheWithConfig(cfg)
    \/ PostgresOpenWithConfig
    \/ PostgresFromEnv
    \/ SQLiteOpenWithConfig
    \/ \E h \in 1..MaxOpens : CallerCloses(h)

SpecOpen == InitOpen /\ [][NextOpen]_vars


(***************************************************************************)
(* Claims about the transaction helpers, checked under SpecTx.             *)
(***************************************************************************)
ReturnedNil == Outcome("return", NoErr, NoPanic)

Made(s, step) == \E i \in DOMAIN calls[s] : calls[s][i] = step

FnReturnsNil == scn.begin = NoErr /\ scn.fn = ReturnedNil

FnReturnsError ==
    scn.begin = NoErr /\ scn.fn.kind = "return" /\ scn.fn.err # NoErr

FnPanics == scn.begin = NoErr /\ scn.fn.kind = "panic"

\* C1: in both helpers, when Begin succeeds and the callback returns nil,
\* Rollback is never called and the helper ends having called exactly
\* begin, fn, commit; if that Commit succeeds the helper returns nil and the
\* callback's writes are persisted.
C1_CommitOnNil ==
    \A s \in Stores :
        FnReturnsNil =>
            /\ ~Made(s, "rollback")
            /\ pc[s] = "done" => calls[s] = <<"begin", "fn", "commit">>
            /\ (pc[s] = "done" /\ scn.commit = NoErr) =>
                   /\ ret[s] = ReturnedNil
                   /\ txState[s] = "committed"
                   /\ db[s] = db0[s] \cup scn.writes

C1_Witness ==
    \E s \in Stores :
        /\ FnReturnsNil /\ scn.commit = NoErr /\ pc[s] = "done"
        /\ scn.writes # {} /\ db0[s] = {} /\ db[s] = scn.writes

\* C2: in both helpers, when Begin succeeds and the callback returns a
\* non-nil error e, Commit is never called, nothing the callback wrote is
\* persisted, the helper ends having called exactly begin, fn, rollback, and
\* when that Rollback succeeds the helper returns e itself.
C2_RollbackOnError ==
    \A s \in Stores :
        FnReturnsError =>
            /\ ~Made(s, "commit")
            /\ db[s] = db0[s]
            /\ pc[s] = "done" => calls[s] = <<"begin", "fn", "rollback">>
            /\ (pc[s] = "done" /\ scn.rollback = NoErr) =>
                   ret[s] = Outcome("return", scn.fn.err, NoPanic)

C2_Witness ==
    \E s \in Stores :
        /\ FnReturnsError /\ scn.rollback = NoErr /\ pc[s] = "done"
        /\ scn.fn.err = ErrApp /\ ret[s].err = ErrApp
        /\ scn.writes # {} /\ ~(scn.writes \subseteq db[s])

\* C3: in both helpers, when Begin succeeds and the callback panics with p,
\* Commit is never called, nothing is persisted, the helper ends having
\* called exactly begin, fn, rollback, and it ends by panicking with p and not
\* by returning, whether or not the Rollback succeeded.
C3_RollbackAndRepanic ==
    \A s \in Stores :
        FnPanics =>
            /\ ~Made(s, "commit")
            /\ db[s] = db0[s]
            /\ pc[s] = "done" =>
                   /\ calls[s] = <<"begin", "fn", "rollback">>
                   /\ ret[s] = Outcome("panic", NoErr, scn.fn.value)

C3_Witness ==
    \E s \in Stores :
        /\ FnPanics /\ scn.rollback = ErrRollback /\ pc[s] = "done"
        /\ ret[s].kind = "panic" /\ txState[s] = "broken"
        /\ scn.writes # {}

\* C4: in both helpers, when the callback returns error e and the Rollback
\* then fails with r, the helper returns a new error whose text holds r's text
\* and e's text and whose Unwrap chain leads to e.
C4_RollbackFailureSurfacesBoth ==
    \A s \in Stores :
        (FnReturnsError /\ scn.rollback # NoErr /\ pc[s] = "done") =>
            /\ ret[s].kind = "return"
            /\ ret[s].err # NoErr
            /\ ret[s].err # scn.fn.err
            /\ Contains(ret[s].err.msg, scn.rollback.msg)
            /\ Contains(ret[s].err.msg, scn.fn.err.msg)
            /\ ret[s].err.wraps = <<scn.fn.err>>
            /\ ErrorsIs(ret[s].err, scn.fn.err)

C4_Witness ==
    \E s \in Stores :
        /\ FnReturnsError /\ scn.rollback = ErrRollback /\ pc[s] = "done"
        /\ scn.fn.err = ErrApp
        /\ ErrorsIs(ret[s].err, ErrRow)
        /\ ~ErrorsIs(ret[s].err, ErrRollback)

\* the outcome classes of a helper
OutcomeClass(r) ==
    IF r.kind = "panic" THEN "re-raised panic"
    ELSE IF r.err = NoErr THEN "nil"
    ELSE IF r.err.msg[1] = "begin transaction: " THEN "wrapped begin error"
    ELSE IF r.err.msg[1] = "commit transaction: " THEN "wrapped commit error"
    ELSE IF r.err.msg[1] = "rollback failed: " THEN "rollback-failed error"
    ELSE "callback error"

\* C5: run on the same outcomes of Begin, the callback, Commit and Rollback,
\* the postgres helper and the sqlite helper make the same sequence of
\* begin/fn/commit/rollback steps, end in the same outcome class with the same
\* result, and leave the same data persisted.
C5_SameStateMachine ==
    (pc["postgres"] = "done" /\ pc["sqlite"] = "done") =>
        /\ calls["postgres"] = calls["sqlite"]
        /\ OutcomeClass(ret["postgres"]) = OutcomeClass(ret["sqlite"])
        /\ ret["postgres"] = ret["sqlite"]
        /\ txState["postgres"] = txState["sqlite"]
        /\ db["postgres"] = db["sqlite"]

C5_Witness ==
    /\ pc["postgres"] = "done" /\ pc["sqlite"] = "done"
    /\ round = 2
    /\ scn.begin = NoErr /\ scn.fn = ReturnedNil /\ scn.commit = ErrCommit
    /\ OutcomeClass(ret["sqlite"]) = "wrapped commit error"
    /\ calls["sqlite"] = <<"begin", "fn", "commit">>
    /\ db["sqlite"] # {}

(***************************************************************************)
(* Claims about Cache.Remember, checked under SpecCache.                   *)
(***************************************************************************)
\* the step is caller c's call of Remember, up to the return of its read
Reads(c) == ncalls'[c] = ncalls[c] + 1

\* the step is caller c's write of its encoded result
Writes(c) == remember[c].pc = "set" /\ remember'[c].pc = "done"

\* one step, seen from caller c
C6_HitStep(c) ==
    (Reads(c) /\ remember'[c].readErr = NoErr) =>
        /\ store' = store
        /\ store[key(remember'[c].key)].present
        /\ remember'[c].pc = "done"
        /\ remember'[c].val = store[key(remember'[c].key)].val
        /\ remember'[c].err = NoErr
        /\ remember'[c].fnCalls = 0
        /\ remember'[c].sets = 0

\* C6: a call of Remember whose read of the prefixed key succeeds returns
\* the value the key holds and a nil error at once, leaves every entry of the
\* store (value and TTL) as it was, and never invokes fn or Set.
C6_HitReturnsStored == [][\A c \in Callers : C6_HitStep(c)]_vars

C6_Witness ==
    \E c \in Callers :
        /\ remember[c].pc = "done" /\ remember[c].readErr = NoErr
        /\ remember[c].val = <<"4", "2">>
        /\ store[key(remember[c].key)] = Entry(<<"4", "2">>, 1)
        /\ remember[c].fnCalls = 0

\* what Remember is to store and return for fn's result
StoredForm(result) ==
    IF result.type \in {"string", "bytes"} THEN result.str
    ELSE MarshalJSON(result).data

\* one step, seen from caller c
C7_MissStep(c) ==
    /\ remember'[c].readErr = RedisNil =>
          \/ remember'[c].pc = "compute" /\ remember'[c].fnCalls = 0
          \/ remember'[c].pc \in {"set", "done"} /\ remember'[c].fnCalls = 1
    /\ (remember'[c].readErr = RedisNil /\ remember'[c].pc = "done"
            /\ remember'[c].err = NoErr) => remember'[c].sets = 1
    /\ (Writes(c) /\ remember'[c].err = NoErr) =>
          /\ remember[c].strVal = StoredForm(remember[c].result)
          /\ store' = [store EXCEPT ![key(remember[c].key)] =
                          Entry(remember[c].strVal, remember[c].ttl)]
          /\ remember'[c].val = remember[c].strVal
          /\ RedisGet(store', key(remember[c].key), NoErr)
                 = [val |-> remember'[c].val, err |-> NoErr]

\* C7: a call of Remember whose read reports redis.Nil invokes fn exactly
\* once; its write stores, under the key it read and with the ttl it was
\* given, fn's string or bytes verbatim and any other result as its JSON
\* text, and changes no other entry; the call then returns the stored string,
\* which is what a Get of the key right after it yields.
C7_MissComputesStoresReturns == [][\A c \in Callers : C7_MissStep(c)]_vars

C7_Witness ==
    \E c \in Callers :
        /\ remember[c].pc = "done" /\ remember[c].readErr = RedisNil
        /\ remember[c].err = NoErr /\ remember[c].result.type = "int"
        /\ remember[c].val = <<"4", "2">>
        /\ prefix # <<>>
        /\ store[prefix \o remember[c].key] = Entry(<<"4", "2">>, 1)

\* one step, seen from caller c
C8_ReadErrorStep(c) ==
    (Reads(c) /\ remember'[c].readErr \notin {NoErr, RedisNil}) =>
        /\ store' = store
        /\ remember'[c].pc = "done"
        /\ remember'[c].val = <<>>
        /\ remember'[c].err = remember'[c].readErr
        /\ remember'[c].fnCalls = 0
        /\ remember'[c].sets = 0

\* C8: a call of Remember whose read fails with an error other than
\* redis.Nil returns the empty string and that error at once, writes nothing
\* and never invokes fn.
C8_ReadErrorPropagates == [][\A c \in Callers : C8_ReadErrorStep(c)]_vars

C8_Witness ==
    \E c \in Callers :
        /\ remember[c].pc = "done" /\ remember[c].readErr = ErrConn
        /\ remember[c].err = ErrConn /\ remember[c].fnCalls = 0
        /\ store[key(remember[c].key)].present

\* the call of caller c has returned and an earlier call on its key had
\* returned before it began
SecondCall(c) == remember[c].pc = "done" /\ remember[c].first.some

\* C9, as the spec states it: of two calls of Remember with the same key, one
\* after the other, at most one invokes fn and the second returns the value
\* of the first.  (Stated for the calls in which no Redis command failed: the
\* claim already fails there.)
C9_AtMostOnceAlways ==
    \A c \in Callers :
        (/\ SecondCall(c)
         /\ remember[c].first.err # ErrConn
         /\ remember[c].readErr # ErrConn
         /\ remember[c].err # ErrConn) =>
            /\ remember[c].first.fnCalls + remember[c].fnCalls <= 1
            /\ remember[c].val = remember[c].first.val

\* C9, amended: when the first call returned without error, the key was not
\* deleted, expired or written between its return and the second call's
\* read, and that read did not fail on the connection, the second call finds
\* the entry, does not invoke fn (at most one invocation in total) and
\* returns the first call's value with a nil error.
C9_AtMostOnceWhileCached ==
    \A c \in Callers :
        (/\ SecondCall(c)
         /\ remember[c].first.err = NoErr
         /\ remember[c].clean
         /\ remember[c].readErr # ErrConn) =>
            /\ remember[c].readErr = NoErr
            /\ remember[c].fnCalls = 0
            /\ remember[c].first.fnCalls + remember[c].fnCalls <= 1
            /\ remember[c].val = remember[c].first.val
            /\ remember[c].err = NoErr

C9_Witness ==
    \E c \in Callers :
        /\ SecondCall(c) /\ remember[c].clean
        /\ remember[c].first = ReturnedCall(<<"a">>, NoErr, 1)
        /\ remember[c].readErr = NoErr
        /\ remember[c].val = <<"a">>
        /\ prefix # <<>>

\* one step, seen from caller c
C10_RacingStep(c) ==
    (/\ Writes(c)
     /\ remember'[c].err = NoErr
     /\ store[key(remember[c].key)].present) =>
        /\ remember'[c].fnCalls = 1
        /\ store'[key(remember[c].key)].val = StoredForm(remember[c].result)
        /\ remember'[c].val = StoredForm(remember[c].result)

\* C10: Remember does not coordinate callers.  A caller that saw the miss
\* and whose write finds the key filled in the meantime by another caller
\* still has invoked its own fn, overwrites the entry with its own result
\* and returns its own result, not the one it overwrote.
C10_NoSingleFlight == [][\A c \in Callers : C10_RacingStep(c)]_vars

\* two callers raced on one missing key: both saw the miss, both invoked fn,
\* both wrote, they returned different values and the key holds one of them
C10_Witness ==
    \E c1, c2 \in Callers :
        /\ c1 # c2
        /\ remember[c1].key = remember[c2].key
        /\ \A c \in {c1, c2} :
              /\ remember[c].pc = "done" /\ remember[c].readErr = RedisNil
              /\ remember[c].fnCalls = 1 /\ remember[c].sets = 1
              /\ remember[c].err = NoErr
        /\ remember[c1].val # remember[c2].val
        /\ store[key(remember[c2].key)].val = remember[c2].val


(***************************************************************************)
(* Claims about the other methods of Cache, checked under SpecOps.         *)
(***************************************************************************)
\* the step is a call of RememberJSON, up to the return of its read
ReadsJSON == lastOp'.name = "RememberJSON" /\ nops' = nops + 1

\* the step is the write of the call of RememberJSON
WritesJSON == rj.pc = "set" /\ rj'.pc = "done"

\* Cache.GetJSON of key k into dest, on the keyspace st
GetJSONYields(st, k, dest) == UnmarshalJSON(RedisGet(st, prefix \o k, NoErr).val, dest)

C11_Step ==
    /\ (ReadsJSON /\ rj'.readErr = NoErr) =>
          /\ store[prefix \o rj'.key].present
          /\ rj'.dest = GetJSONYields(store, rj'.key, rj'.dest0).dest
          /\ rj'.pc = "done" /\ rj'.err = NoErr
          /\ store' = store
    /\ (ReadsJSON /\ rj'.readErr \notin {NoErr, RedisNil}) =>
          /\ rj'.pc = "done" /\ rj'.err = rj'.readErr
          /\ store' = store
    /\ rj'.pc = "compute" => rj'.readErr = RedisNil /\ rj'.fnCalls = 0
    /\ rj'.pc = "set" => rj'.readErr = RedisNil /\ rj'.fnCalls = 1
    /\ rj'.pc = "done" =>
          /\ rj'.fnCalls = IF rj'.readErr = RedisNil THEN 1 ELSE 0
          /\ rj'.readErr # RedisNil => rj'.sets = 0
    /\ (WritesJSON /\ lastOp'.res.err = NoErr) =>
          /\ store' = [store EXCEPT ![prefix \o rj.key] =
                          Entry(MarshalJSON(rj.result).data, rj.ttl)]
          /\ rj'.sets = 1
          /\ rj'.dest = GetJSONYields(store', rj.key, rj.dest0).dest
          /\ rj'.err = GetJSONYields(store', rj.key, rj.dest0).err
    /\ (WritesJSON /\ lastOp'.res.err # NoErr) =>
          /\ store' = store
          /\ rj'.err = lastOp'.res.err

\* C11: a call of RememberJSON invokes fn exactly once when its read of the
\* key reports redis.Nil and never otherwise.  When the read and the decoding
\* succeed, dest holds what the cached JSON decodes to and the call returns
\* nil with the store as it was; when the read or the decoding fails in any
\* other way, that error is returned with the store as it was.  On a miss,
\* the write stores fn's result as JSON under the key with the given ttl,
\* and dest and the returned error are then what GetJSON of the key yields.
C11_RememberJSON == [][C11_Step]_vars

C11_Witness ==
    /\ rj.pc = "done" /\ rj.readErr = RedisNil /\ rj.err = NoErr
    /\ rj.fnCalls = 1 /\ rj.sets = 1
    /\ rj.dest0 = GoValue("int", <<>>, 5)
    /\ rj.dest = GoValue("int", <<>>, 42)
    /\ prefix # <<>>
    /\ store[prefix \o rj.key] = Entry(<<"4", "2">>, 1)

\* a cached value that does not decode into dest is returned as an error
C11_WitnessDecodeError ==
    /\ rj.pc = "done" /\ rj.readErr = ErrSyntax /\ rj.err = ErrSyntax
    /\ rj.fnCalls = 0
    /\ store[prefix \o rj.key] = Entry(<<"a">>, 0)


\* the key of the last call
TheKey(op) == CHOOSE k \in op.keys : TRUE

C12_Step ==
    /\ (lastOp'.name = "SetNX" /\ nops' = nops + 1) =>
          LET sk == prefix \o TheKey(lastOp')
              ok == lastOp'.res.ok
          IN  /\ lastOp'.sent = {sk}
              /\ ok <=> (lastOp'.res.err = NoErr /\ ~store[sk].present)
              /\ ok => store' = [store EXCEPT ![sk] =
                                    Entry(lastOp'.arg.val, lastOp'.arg.ttl)]
              /\ ~ok => store' = store
    /\ \A sk \in StoreKeys : won'[sk] <= 1

\* C12: a call of SetNX is one Redis command on the prefixed key: it returns
\* true exactly when the command did not fail and the key was absent, and
\* then the key holds the given value with the given ttl; when it returns
\* false the store, the value and the ttl of the key included, is as it
\* was.  Hence of the calls of SetNX on a key made since the key was last
\* deleted or expired, at most one has returned true.
C12_SetNX == [][C12_Step]_vars

C12_Witness ==
    \E sk \in StoreKeys :
        /\ lastOp.name = "SetNX" /\ lastOp.sent = {sk}
        /\ lastOp.res.err = NoErr /\ ~lastOp.res.ok
        /\ lastOp.arg.val = <<"o", "2">>
        /\ won[sk] = 1
        /\ store[sk] = Entry(<<"o", "1">>, 1)


\* the store keys of the keys ks under KeyPrefix
Prefixed(ks) == {prefix \o k : k \in ks}

\* the store keys whose entry the step changes
Changed == {sk \in StoreKeys : store'[sk] # store[sk]}

\* the step is a call, or the write, of one of the methods lastOp records
OpStep == nops' # nops \/ WritesJSON

\* the step is a call of the method `name` whose Redis command did not fail
OpRead(name) == nops' # nops /\ lastOp'.name = name /\ lastOp'.res.err # ErrConn

C13_Step ==
    /\ OpStep =>
          /\ Changed \subseteq Prefixed(lastOp'.keys)
          /\ \/ lastOp'.sent = Prefixed(lastOp'.keys)
             \/ /\ lastOp'.sent = {}
                /\ ErrorsIs(lastOp'.res.err, ErrUnsupportedType)
    /\ OpRead("Get") =>
          /\ lastOp'.res.val = store[prefix \o TheKey(lastOp')].val
          /\ lastOp'.res.err = NoErr <=> store[prefix \o TheKey(lastOp')].present
    /\ OpRead("GetJSON") =>
          lastOp'.res.err = RedisNil <=> ~store[prefix \o TheKey(lastOp')].present
    /\ OpRead("RememberJSON") =>
          lastOp'.res.err = RedisNil <=> ~store[prefix \o TheKey(lastOp')].present
    /\ OpRead("Exists") =>
          lastOp'.res.ok = store[prefix \o TheKey(lastOp')].present
    /\ OpRead("TTL") =>
          lastOp'.res.num = RedisTTL(store, prefix \o TheKey(lastOp'))
    /\ \A c \in Callers :
          /\ remember'[c] # remember[c] => Changed \subseteq Prefixed({remember'[c].key})
          /\ (Reads(c) /\ remember'[c].readErr # ErrConn) =>
                /\ remember'[c].val = store[prefix \o remember'[c].key].val
                /\ remember'[c].readErr = NoErr
                       <=> store[prefix \o remember'[c].key].present
    /\ prefix # <<>> =>
          \A k \in Keys : store'[k] = store[k] /\ k \notin lastOp'.sent

\* C13: with KeyPrefix P, a call of Get, Set, GetJSON, SetJSON, Delete,
\* Exists, Expire, TTL, Incr, IncrBy, SetNX, Remember or RememberJSON gives
\* its Redis command the store key P+key of each of its keys and no other,
\* changes no entry but those, and returns what the entry under P+key
\* holds; when P is not empty the entry under the key itself is neither
\* given to Redis nor changed.
C13_KeyPrefix == [][C13_Step]_vars

C13_Witness ==
    \E k \in Keys :
        /\ prefix = <<"p", ":">>
        /\ lastOp.name = "IncrBy" /\ lastOp.keys = {k}
        /\ lastOp.sent = {<<"p", ":">> \o k}
        /\ lastOp.res.num = 52
        /\ store[<<"p", ":">> \o k].val = <<"5", "2">>
        /\ ~store[k].present


(***************************************************************************)
(* Claims about the state file, checked under SpecState.                   *)
(***************************************************************************)
\* the step is a call of LoadState
Loads == io'.op = "load" /\ nio' = nio + 1

C14_Step ==
    /\ \A p \in Paths :
          (saved'[p].some /\ ~saved'[p].failed) =>
              fs'[p] = File(MarshalIndent(saved'[p].val))
    /\ (Loads /\ saved[io'.path].some /\ ~saved[io'.path].failed
            /\ io'.cfgErr = NoErr /\ io'.fail = "ok") =>
          /\ io'.val = saved[io'.path].val
          /\ io'.err = NoErr

\* C14: while no SaveState on a path has failed since the last one that
\* returned nil, the file at the path is exactly the indented JSON of the
\* value that one saved, with nothing of the earlier saves, and a LoadState
\* of the same appName and filename that reads the file returns that value
\* and a nil error.
C14_RoundTrip == [][C14_Step]_vars

C14_Witness ==
    /\ io.op = "load" /\ io.err = NoErr
    /\ io.val = State(<<"\"", "\\">>, 42)
    /\ saved[io.path].saves = 2
    /\ saved[io.path].val = io.val

C15_Step ==
    Loads =>
        LET path == IF io'.cfgErr # NoErr THEN <<>> ELSE io'.path
        IN  /\ ~fs[path].exists =>
                  io'.val = ZeroState /\ io'.err = ErrNotExist
            /\ (fs[path].exists /\ io'.fail # "ok") =>
                  /\ io'.val = ZeroState
                  /\ io'.err = ErrorfW("read state file: ", io'.read)
                  /\ io'.read # NoErr
                  /\ ~ErrorsIs(io'.err, ErrNotExist)
            /\ (fs[path].exists /\ io'.fail = "ok"
                    /\ \A st \in States : fs[path].content # MarshalIndent(st)) =>
                  /\ io'.val = ZeroState
                  /\ io'.err # NoErr
                  /\ io'.err.msg[1] = "unmarshal state: "
                  /\ ~ErrorsIs(io'.err, ErrNotExist)

\* C15: a LoadState whose state file does not exist returns the zero value
\* and os.ErrNotExist itself; one whose file exists but cannot be read, or
\* holds no state, returns the zero value and that error wrapped ("read
\* state file: ", "unmarshal state: "), which is not os.ErrNotExist.
C15_NotExist == [][C15_Step]_vars

C15_Witness ==
    /\ io.op = "load" /\ io.cfgErr = NoErr
    /\ io.val = ZeroState /\ io.err = ErrNotExist
    /\ ~fs[io.path].exists
    /\ \E p \in Paths : fs[p].exists /\ saved[p].val # ZeroState

\* a file that a failed write left empty is reported as a parse error
C15_WitnessParse ==
    /\ io.op = "load" /\ io.read = NoErr
    /\ io.err = ErrorfW("unmarshal state: ", ErrUnexpectedEnd)
    /\ fs[io.path] = File(<<>>)


(***************************************************************************)
(* Claims about the file logger, checked under SpecLog.                    *)
(***************************************************************************)
C16_Step ==
    /\ \A p \in LogPaths :
          /\ logFiles'[p].content = logged'[p]
          /\ logFiles[p].exists =>
                /\ logFiles'[p].exists
                /\ Len(logFiles'[p].content) >= Len(logFiles[p].content)
                /\ SubSeq(logFiles'[p].content, 1, Len(logFiles[p].content))
                       = logFiles[p].content
    /\ loggers' # loggers => logFiles'= [p \in LogPaths |->
                                           IF logFiles[p].exists THEN logFiles[p]
                                           ELSE logFiles'[p]]

\* C16: the log file of an appName holds the records that the loggers made
\* for it have written while open, each once and in the order written; a
\* step never removes or changes what the file holds, and a call of
\* NewFileLogger or of a cleanup leaves every file that exists as it is.
C16_Appends == [][C16_Step]_vars

C16_Witness ==
    \E p \in LogPaths :
        /\ logFiles[p].content =
              <<LogLine("INFO", "first message"), LogLine("INFO", "second message")>>
        /\ loggers[1] = [state |-> "closed", path |-> p]
        /\ loggers[2] = [state |-> "open", path |-> p]


(***************************************************************************)
(* Claims about CaptureInputWithEditor, checked under SpecEditor.          *)
(***************************************************************************)
\* str is text with every newline at its end cut, and nothing else
CutOf(str, text) ==
    /\ Len(str) <= Len(text)
    /\ SubSeq(text, 1, Len(str)) = str
    /\ \A i \in (Len(str) + 1)..Len(text) : text[i] = "\n"
    /\ str # <<>> => str[Len(str)] # "\n"

\* C17: a call of CaptureInputWithEditor whose editor exits with success and
\* whose read of the temp file succeeds returns a nil error and the content
\* the editor left in the file with every newline at its end cut and
\* nothing else changed; when the editor did not change the file that is
\* the initial content so cut, and the empty string when the initial
\* content is empty.
C17_ReturnsContent ==
    (ed.pc = "done" /\ ed.runErr = NoErr /\ ed.started /\ ed.err = NoErr) =>
        /\ ed.left.exists
        /\ CutOf(ed.result, ed.left.content)
        /\ ed.left = File(ed.initial) => CutOf(ed.result, ed.initial)
        /\ (ed.left = File(ed.initial) /\ ed.initial = <<>>) => ed.result = <<>>

C17_Witness ==
    /\ ed.pc = "done" /\ ed.started /\ ed.runErr = NoErr /\ ed.err = NoErr
    /\ ed.initial = <<"a">>
    /\ ed.left = File(<<"\n", "a", "\n">>)
    /\ ed.result = <<"\n", "a">>

\* C18: a call of CaptureInputWithEditor whose editor cannot be started, or
\* exits with failure, returns the empty string and an error that wraps the
\* one of cmd.Run, and has never read the temp file, whatever the editor
\* left in it.
C18_EditorFailure ==
    (ed.pc = "done" /\ ed.runErr # NoErr) =>
        /\ ed.result = <<>>
        /\ ed.err # NoErr
        /\ ed.err = ErrorfW("run editor: ", ed.runErr)
        /\ ed.reads = 0

C18_Witness ==
    /\ ed.pc = "done" /\ ed.started /\ ed.runErr = ErrExitStatus
    /\ ed.left = File(<<"a", "a">>)
    /\ ed.result = <<>> /\ ed.reads = 0


(***************************************************************************)
(* Claims about the spinner, checked under FairSpecSpinner (C19) and       *)
(* SpecSpinner (C20).                                                      *)
(***************************************************************************)
\* goroutine g was started with the context that has been cancelled, and
\* Stop has not been called
CancelledUnstopped(g) ==
    /\ gor[g].pc # "none"
    /\ gor[g].parent = "user" /\ chans.user
    /\ ~caller.stopCalled

\* C19: when the context given to StartWithContext is cancelled and Stop is
\* not called, the animation goroutine terminates in the end; and a
\* goroutine that has terminated stays so and writes no frame.
C19_StopsOnCancel ==
    /\ \A g \in Goroutines :
          CancelledUnstopped(g) ~> (gor[g].pc = "exited" \/ caller.stopCalled)
    /\ [][\A g \in Goroutines :
             gor[g].pc = "exited" =>
                 /\ gor'[g].pc = "exited"
                 /\ line' # line => line'.by # g]_vars

C19_Witness ==
    \E g \in Goroutines :
        /\ CancelledUnstopped(g)
        /\ gor[g].pc = "exited"
        /\ line = FrameOutput(g, "f2", "Still loading...")

\* C20: once Stop has returned, and until StartWithContext is called again,
\* the last output on the line is the clear-line sequence that Stop wrote.
C20_ClearIsLast == caller.stopped => line = ClearOutput

(***************************************************************************)
(* Claims about the scaffolding, checked under SpecApply.                  *)
(***************************************************************************)
\* the files of the tree that Apply was called on, relative to root
TreeTemplates == {f \in TemplateFiles : ap.tree[f] # Absent}

\* the templates among them that parse and execute, and their output
Rendering ==
    {f \in TreeTemplates :
        /\ ParseTemplate(ap.tree[f]) = NoErr
        /\ Execute(ap.tree[f], ap.data).err = NoErr}

Output(f) == Execute(ap.tree[f], ap.data).out

WhitespaceOnly(text) == \A i \in 1..Len(text) : text[i] \in {" ", "\n", "\t", "\r"}

DestOf(f) == TargetDir \o <<"/">> \o
                (IF HasSuffix(f, TmplSuffix) THEN SubSeq(f, 1, Len(f) - 5) ELSE f)

HoldsOutput(f) == IsFile(tdir, DestOf(f)) /\ tdir.files[DestOf(f)].content = Output(f)

\* the templates whose output is written to d, and the last of them that
\* fs.WalkDir visits
WrittenTo(d) == {f \in Rendering : DestOf(f) = d /\ ~WhitespaceOnly(Output(f))}

LastWrittenTo(d) == CHOOSE f \in WrittenTo(d) : \A g \in WrittenTo(d) \ {f} : PathLess(g, f)

C22_DefaultsPerCall ==
    mg.used.called =>
        /\ mg.cfg.Table = "" => mg.used.table = "goose_db_version"
        /\ mg.cfg.FS = "nil" => mg.used.baseFS = "os"
        /\ mg.cfg.Dir = "" /\ mg.op # "MigrateVersion" => mg.used.dir = "migrations"

(***************************************************************************)
(* More claims about the transaction helpers, checked under SpecTx.        *)
(***************************************************************************)
\* C23: in both helpers, when Begin fails the callback is never invoked,
\* neither Commit nor Rollback is called, nothing is persisted, and the
\* helper returns an error that is not the error of Begin but wraps it.
C23_BeginFailure ==
    \A s \in Stores :
        scn.begin # NoErr =>
            /\ ~Made(s, "fn") /\ ~Made(s, "commit") /\ ~Made(s, "rollback")
            /\ pc[s] = "done" =>
                  /\ calls[s] = <<"begin">>
                  /\ ret[s].kind = "return"
                  /\ ret[s].err # scn.begin
                  /\ ErrorsIs(ret[s].err, scn.begin)
                  /\ db[s] = db0[s]

C23_Witness ==
    \E s \in Stores :
        /\ scn.begin = ErrBegin
        /\ pc[s] = "done"
        /\ ret[s].err.wraps = <<ErrBegin>>
        /\ Contains(ret[s].err.msg, <<"begin transaction: ">>)

NumberOf(s, step) == Cardinality({i \in DOMAIN calls[s] : calls[s][i] = step})

\* C24: in both helpers, when Begin has succeeded the callback is invoked at
\* most once and Commit and Rollback together are called at most once, and
\* only after the callback; when the helper has ended, the callback was
\* invoked exactly once and exactly one of Commit and Rollback was called,
\* once; a Commit that fails is returned wrapped and no Rollback follows it.
C24_ExactlyOneEnd ==
    \A s \in Stores :
        (scn.begin = NoErr /\ Made(s, "begin")) =>
            /\ NumberOf(s, "fn") <= 1
            /\ NumberOf(s, "commit") + NumberOf(s, "rollback") <= 1
            /\ \A i \in DOMAIN calls[s] :
                  calls[s][i] \in {"commit", "rollback"} =>
                      \E j \in 1..(i - 1) : calls[s][j] = "fn"
            /\ pc[s] = "done" =>
                  /\ NumberOf(s, "fn") = 1
                  /\ NumberOf(s, "commit") + NumberOf(s, "rollback") = 1
                  /\ (Made(s, "commit") /\ scn.commit # NoErr) =>
                        /\ ret[s].kind = "return"
                        /\ ret[s].err.wraps = <<scn.commit>>
                        /\ Contains(ret[s].err.msg, <<"commit transaction: ">>)
                        /\ ~Made(s, "rollback")

C24_Witness ==
    \E s \in Stores :
        /\ scn.begin = NoErr
        /\ scn.commit = ErrCommit
        /\ pc[s] = "done"
        /\ calls[s] = <<"begin", "fn", "commit">>
        /\ ret[s].err.wraps = <<ErrCommit>>
        /\ txState[s] = "broken"

(***************************************************************************)
(* More claims about Cache.Remember, checked under SpecCache.              *)
(***************************************************************************)
\* the step is the return of caller c's call from its compute function or
\* from the encoding of its result
FailsToCompute(c) == remember[c].pc = "compute" /\ remember'[c].pc = "done"

\* one step, seen from caller c
C25_Step(c) ==
    /\ FailsToCompute(c) =>
          /\ store' = store
          /\ remember'[c].sets = 0
          /\ remember'[c].val = <<>>
          /\ \/ remember'[c].err = ErrCompute
             \/ /\ MarshalJSON(remember'[c].result).err # NoErr
                /\ remember'[c].err.wraps = <<MarshalJSON(remember'[c].result).err>>
    /\ (Writes(c) /\ remember'[c].err # NoErr) =>
          /\ remember'[c].val = <<>>
          /\ remember'[c].err = ErrConn
    /\ (remember'[c].pc = "done" /\ remember'[c].readErr = RedisNil
            /\ remember'[c].err # NoErr) => remember'[c].val = <<>>

\* C25: a call of Remember that has seen the miss and returns because its
\* compute function returned an error, or because the result has no JSON
\* encoding, changes no entry, has written nothing, and returns that error
\* with the empty string; a call whose write fails returns the empty string
\* and the error of the write, not the value it computed.
C25_ErrorAfterMiss == [][\A c \in Callers : C25_Step(c)]_vars

C25_Witness ==
    \E c, d \in Callers :
        /\ remember[c].pc = "done" /\ remember[c].readErr = RedisNil
        /\ remember[c].err = ErrCompute /\ remember[c].sets = 0
        /\ remember[c].val = <<>>
        /\ ~store[key(remember[c].key)].present
        /\ remember[d].pc = "done" /\ remember[d].readErr = RedisNil
        /\ remember[d].err = ErrConn /\ remember[d].sets = 1
        /\ remember[d].strVal # <<>> /\ remember[d].val = <<>>

\* the call of caller c began after a Delete or an expiry of its key, with
\* no other call on the key begun in between, and its read did not fail
NextAfterDelete(c, kinds) ==
    /\ remember[c].pc # "idle"
    /\ remember[c].afterDelete \in kinds
    /\ remember[c].readErr # ErrConn

\* the call saw a miss and, if it has returned nil, has invoked fn once and
\* written once, and returns what it computed
MissesAndRecomputes(c) ==
    /\ remember[c].readErr = RedisNil
    /\ (remember[c].pc = "done" /\ remember[c].err = NoErr) =>
          /\ remember[c].fnCalls = 1
          /\ remember[c].sets = 1
          /\ remember[c].val = StoredForm(remember[c].result)

Active(g) == gor[g].pc \in {"select", "default"}

\* Stop has closed the done channel that StartWithContext made for g
Signalled(g) == g \in chans.closed

\* C27: at most one animation goroutine is active: StartWithContext starts
\* a goroutine only when the spinner is not running and every goroutine
\* started before has been signalled by Stop, and a goroutine that Stop has
\* signalled returns at its next select, also when StartWithContext has
\* been called again in between.
C27_OneAnimation ==
    /\ [][\A g \in Goroutines :
             gor[g].pc = "none" /\ gor'[g].pc # "none" =>
                 /\ ~sp.running
                 /\ \A h \in Goroutines \ {g} : Active(h) => Signalled(h)]_vars
    /\ [][\A g \in Goroutines :
             Signalled(g) /\ gor[g].pc = "select" =>
                 gor'[g].pc \in {"select", "exited"}]_vars

\* the step is a call of Stop, up to the release of the mutex
StopStep ==
    /\ caller'.last \in {"Stop", "Stop: not running"}
    /\ caller'.last # caller.last

\* C28: Stop does not panic and is idempotent: no done channel is closed a
\* second time, and a call of Stop on a spinner that is not running (before
\* any Start, after a Stop, while an earlier Stop clears the line) changes
\* no field of the Spinner, closes and cancels nothing, writes nothing and
\* returns at once.
C28_StopIdempotent ==
    /\ [][chans'.reclosed = {}]_vars
    /\ [][StopStep /\ ~sp.running =>
             /\ UNCHANGED <<sp, chans, gor, line>>
             /\ caller'.pc = caller.pc
             /\ caller'.stopped = caller.stopped]_vars

\* Stop has been called on the spinner that an earlier Stop had stopped,
\* after the context was cancelled and a second Start
C28_Witness ==
    /\ caller.last = "Stop: not running"
    /\ sp.started = 2
    /\ ~sp.running
    /\ chans.user
    /\ chans.closed = {1, 2}
    /\ chans.reclosed = {}

(***************************************************************************)
(* Claims about the Open functions, checked under SpecOpen.                *)
(***************************************************************************)
\* the prefix of each error of these functions that is made after the
\* handle
AfterHandle ==
    {<<"failed to ping redis: ">>, <<"ping postgres: ">>, <<"ping sqlite: ">>,
     <<"set pragma \"PRAGMA cache_size=-2000\": ">>}

\* C29: no handle is leaked on a failed open.  A handle that is open was
\* returned by the call that made it; a call returns either a handle and a
\* nil error or a nil handle and an error; the handle returned is the one
\* the call made, open; and a call whose ping or pragma failed has made a
\* handle and closed it.
C29_NoLeak ==
    /\ \A h \in 1..Len(handles) :
          handles[h].state = "open" => handles[h].returned
    /\ opn.fn # "none" =>
          /\ opn.handle # NoHandle <=> opn.err = NoErr
          /\ opn.fail \in {"ping", "pragma"} =>
                /\ opn.err # NoErr
                /\ SubSeq(opn.err.msg, 1, 1) \in AfterHandle
                /\ opn.made = Len(handles)
                /\ handles[opn.made] = [state |-> "closed", returned |-> FALSE]
          /\ opn.fail \in {"parse", "create"} =>
                opn.err # NoErr /\ opn.made = NoHandle
          /\ opn.handle # NoHandle =>
                /\ opn.handle = opn.made
                /\ handles[opn.handle].returned

\* a call of sqlite.OpenWithConfig whose pragmas failed has closed the db
\* it made, while the pool that an earlier call returned is open
C29_Witness ==
    /\ opn.fn = "sqlite.OpenWithConfig"
    /\ opn.fail = "pragma"
    /\ opn.handle = NoHandle
    /\ opn.err # NoErr
    /\ opn.made = 2
    /\ handles[2].state = "closed"
    /\ handles[1] = [state |-> "open", returned |-> TRUE]

(***************************************************************************)
(* Claims about the temp file of the editor input, checked under           *)
(* SpecEditor.                                                             *)
(***************************************************************************)
\* the step of CaptureInputWithEditor that made it return
ReturnPath == IF ed.err = NoErr THEN "success" ELSE Head(ed.err.msg)

ReturnPaths ==
    {"create temp file: ", "set temp file permissions: ",
     "write initial content: ", "close temp file: ", "run editor: ",
     "read edited content: ", "success"}

\* C30: when CaptureInputWithEditor has returned, on any of its return
\* paths, there is no temp file; and the file that was created is there as
\* long as the call has not returned, unless the editor removed it.
C30_NoTempFileLeft ==
    /\ ed.pc = "done" => ReturnPath \in ReturnPaths /\ ~tmp.exists
    /\ ed.pc = "run" => tmp = File(ed.initial)
    /\ ed.pc = "read" => tmp = ed.left

\* the editor rewrote the file and exited with a failure, and the call has
\* returned
C30_Witness ==
    /\ ed.pc = "done"
    /\ ReturnPath = "run editor: "
    /\ ed.started
    /\ ed.left.exists
    /\ ed.left.content # ed.initial
    /\ ~tmp.exists

\* the file could not be closed, and the call has returned
C30_WitnessClose ==
    /\ ed.pc = "done"
    /\ ReturnPath = "close temp file: "
    /\ ed.initial # <<>>
    /\ ~tmp.exists

=============================================================================
